---- MODULE Spec2Model ----
(***************************************************************************)
(* Email client: the email table, the one-row stats table, the query       *)
(* engine (filter, search, threading), the stats maintainer and the        *)
(* mutation handlers POST / PATCH / DELETE of /api/emails.                 *)
(*                                                                         *)
(* Optional values (a JSON field or URL parameter that may be missing)     *)
(* are sets with no or one element: {} is undefined/null, {v} is v.        *)
(* Texts are sequences of one-character strings.                           *)
(***************************************************************************)
EXTENDS Integers, Sequences, FiniteSets, TLC

VARIABLES emails, emailStats, now, resp

vars == <<emails, emailStats, now, resp>>

\* The query cache of the browser, the list on display, the mutations that
\* have not settled and the number of mutations started.
VARIABLES cache, activeList, mutations, issued

clientVars == <<cache, activeList, mutations, issued>>

\* The handlers that run at the same time on the server, each with the
\* statement it is at.
VARIABLES handlers

\* The hooks of the page that work with timers, each with its own clock.
VARIABLES debounce, delayed, minimum

hookVars == <<debounce, delayed, minimum>>

allVars ==
    <<emails, emailStats, now, resp, cache, activeList, mutations, issued, handlers, hookVars>>

(* ------------------------------ bounds -------------------------------- *)

\* Largest number of rows of the email table.
MaxEmails == 2

\* Last second of the clock; timestamps are stored in whole seconds.
MaxTime == 2

\* Largest number of mutations the client starts.
MaxMutations == 2

\* Number of handlers that run at the same time.
MaxHandlers == 2

\* Last instant of a hook's clock, in units of 100 ms.
MaxHookTime == 6

\* Largest number of calls and callbacks of one hook that are followed.
MaxEvents == 4

(* ------------------------------ values -------------------------------- *)

INCOMING == "incoming"

OUTGOING == "outgoing"

STATS_ROW_ID == 1

ThreadNames == <<"t1", "t2", "t3", "t4", "t5", "t6">>

ThreadIds == {ThreadNames[i] : i \in 1..MaxEmails}

Filters == {"inbox", "unread", "important", "sent", "trash"}

Absent == {}

Some(v) == {v}

Get(o) == CHOOSE v \in o : TRUE

SeqToSet(s) == {s[i] : i \in 1..Len(s)}

(* ------------------------------- text --------------------------------- *)

IsSpace(c) == c = " "

\* String.prototype.trim
RECURSIVE TrimLeft(_)
TrimLeft(s) ==
    IF s # <<>> /\ IsSpace(Head(s)) THEN TrimLeft(Tail(s)) ELSE s

RECURSIVE TrimRight(_)
TrimRight(s) ==
    IF s # <<>> /\ IsSpace(s[Len(s)]) THEN TrimRight(SubSeq(s, 1, Len(s) - 1)) ELSE s

Trim(s) == TrimRight(TrimLeft(s))

\* SQLite folds the case of ASCII letters when it compares with LIKE.
Lower(c) ==
    CASE c = "A" -> "a"
      [] c = "B" -> "b"
      [] OTHER -> c

\* SQLite's LIKE: % matches any run of characters, _ any one character.
RECURSIVE like(_, _)
like(text, pattern) ==
    IF pattern = <<>> THEN text = <<>>
    ELSE IF Head(pattern) = "%"
         THEN like(text, Tail(pattern)) \/ (text # <<>> /\ like(Tail(text), pattern))
         ELSE /\ text # <<>>
              /\ Head(pattern) = "_" \/ Lower(Head(pattern)) = Lower(Head(text))
              /\ like(Tail(text), Tail(pattern))

(* --------------------------- query engine ----------------------------- *)

getFilterCondition(filter, e) ==
    CASE filter = Some("trash") -> e.isDeleted
      [] filter = Some("important") -> e.isImportant /\ ~e.isDeleted
      [] filter = Some("sent") -> e.direction = OUTGOING /\ ~e.isDeleted
      [] filter = Some("unread") -> ~e.isRead /\ ~e.isDeleted
      [] OTHER -> e.direction = INCOMING /\ ~e.isDeleted

getSearchConditions(query, e) ==
    LET searchTerm == <<"%">> \o query \o <<"%">>
    IN  \/ like(e.subject, searchTerm)
        \/ like(e.to, searchTerm)
        \/ like(e.from, searchTerm)
        \/ like(e.content, searchTerm)

\* The conditions array of fetchEmails: the filter, and the search when the
\* query is given and not blank.
Conditions(filter, query, e) ==
    /\ getFilterCondition(filter, e)
    /\ (query # Absent /\ Trim(Get(query)) # <<>>)
          => getSearchConditions(Trim(Get(query)), e)

\* The rows of the subquery "latest": one per thread that has a matching
\* record, with the greatest creation time of the matching records.
Latest(table, filter, query) ==
    LET matching == {e \in SeqToSet(table) : Conditions(filter, query, e)}
    IN  {[threadId |-> t,
          maxCreatedAt |-> CHOOSE m \in {e.createdAt : e \in {x \in matching : x.threadId = t}} :
                              \A e \in matching : e.threadId = t => e.createdAt <= m]
          : t \in {e.threadId : e \in matching}}

\* The inner join of the email table with the subquery on thread and time.
fetchThreadedEmails(table, filter, query) ==
    {e \in SeqToSet(table) :
        \E g \in Latest(table, filter, query) :
            e.threadId = g.threadId /\ e.createdAt = g.maxCreatedAt}

\* The records a list query returns (their order is not modelled here).
fetchEmails(table, filter, query, threaded) ==
    IF threaded
    THEN fetchThreadedEmails(table, filter, query)
    ELSE {e \in SeqToSet(table) : Conditions(filter, query, e)}

\* A thread query that selects as the list filters do.
ThreadConditionOfListFilter(threadId, filter, e) ==
    e.threadId = threadId /\ getFilterCondition(filter, e)

getThreadFilterCondition(threadId, filter, e) ==
    CASE filter = Some("trash") -> e.threadId = threadId /\ e.isDeleted
      [] filter = Some("important") -> e.threadId = threadId /\ e.isImportant /\ ~e.isDeleted
      [] OTHER -> e.threadId = threadId /\ ~e.isDeleted

\* GET /api/emails/thread/[threadId]: the records returned.
ThreadGET(table, threadId, filter) ==
    {e \in SeqToSet(table) : getThreadFilterCondition(threadId, filter, e)}

(* -------------------------- stats maintainer -------------------------- *)

Count(table, P(_)) == Cardinality({i \in 1..Len(table) : P(table[i])})

\* The five COUNT aggregates of recalculateStats.
StatsOf(table) ==
    LET inbox(e) == e.direction = INCOMING /\ ~e.isDeleted
        unread(e) == e.direction = INCOMING /\ ~e.isRead /\ ~e.isDeleted
        important(e) == e.isImportant /\ ~e.isDeleted
        deleted(e) == e.isDeleted
        sent(e) == e.direction = OUTGOING /\ ~e.isDeleted
    IN  [total |-> Count(table, inbox),
         unread |-> Count(table, unread),
         important |-> Count(table, important),
         deleted |-> Count(table, deleted),
         sent |-> Count(table, sent)]

\* The row recalculateStats upserts.
StatsRow(stats, time) ==
    [id |-> STATS_ROW_ID,
     inboxEmailCount |-> stats.total,
     unreadEmailCount |-> stats.unread,
     importantEmailCount |-> stats.important,
     sentEmailCount |-> stats.sent,
     updatedAt |-> time]

\* recalculateStats at a given time: the value returned and the row upserted.
recalculateStats(table, time) ==
    [stats |-> StatsOf(table), row |-> StatsRow(StatsOf(table), time)]

\* A stats read that counts the deleted records.
getStatsCountingDeleted(statsTable, table) ==
    [StatsOf(table) EXCEPT !.deleted = Count(table, LAMBDA e : e.isDeleted)]

\* getStats: the value returned for a stats table and an email table.
getStats(statsTable, table) ==
    IF statsTable = Absent
    THEN StatsOf(table)
    ELSE LET row == Get(statsTable)
         IN  [total |-> row.inboxEmailCount,
              unread |-> row.unreadEmailCount,
              important |-> row.importantEmailCount,
              deleted |-> 0,
              sent |-> row.sentEmailCount]

(* ----------------------------- responses ------------------------------ *)

\* The response of a handler: the handler, the HTTP status code and the
\* JSON body ({status, error} or {status, message, emails, stats}; emails
\* holds the ids of the records returned).
Response(op, code, status, error, message, ids, stats) ==
    [op |-> op, code |-> code, status |-> status, error |-> error, message |-> message,
     emails |-> ids, stats |-> stats]

errorResponse(op, error, code) == Response(op, code, "error", error, "", {}, Absent)

successResponse(op, code, message, ids, stats) ==
    Response(op, code, "success", "", message, ids, stats)

(* ------------------------------- state -------------------------------- *)

\* No response is on its way: the server waits for the next request.
NoResponse == Response("none", 0, "none", "", "", {}, Absent)

Idle == resp = NoResponse

Init ==
    /\ emails = <<>>
    /\ emailStats = Absent
    /\ now = 1
    /\ resp = NoResponse

\* The response reaches the client.
Deliver ==
    /\ ~Idle
    /\ resp' = NoResponse
    /\ UNCHANGED <<emails, emailStats, now, clientVars, handlers, hookVars>>

\* The clock moves to the next second.
Tick ==
    /\ Idle
    /\ now < MaxTime
    /\ now' = now + 1
    /\ UNCHANGED <<emails, emailStats, resp, clientVars, handlers, hookVars>>

\* generateThreadId: an id no record uses (unique with overwhelming probability).
generateThreadId(table) ==
    LET used == {table[i].threadId : i \in 1..Len(table)}
        k == CHOOSE i \in 1..Len(ThreadNames) :
                /\ ThreadNames[i] \notin used
                /\ \A j \in 1..(i - 1) : ThreadNames[j] \in used
    IN  ThreadNames[k]

\* A validation that does not trim.
BlankFieldUntrimmed(field) == field = Absent \/ Get(field) = <<>>

\* !field?.trim(): the field is missing, empty or only blanks.
BlankField(field) == field = Absent \/ Trim(Get(field)) = <<>>

\* What a handler leaves behind: the two tables and the response.
Outcome(table, statsTable, response) ==
    [emails |-> table, emailStats |-> statsTable, resp |-> response]

\* The handler runs on the request it received and takes effect.
Handled(outcome) ==
    /\ Idle
    /\ emails' = outcome.emails
    /\ emailStats' = outcome.emailStats
    /\ resp' = outcome.resp
    /\ UNCHANGED <<now, clientVars, handlers, hookVars>>

\* A record inserted unread.
NewEmailUnread(body) ==
    [id |-> Len(emails) + 1,
     threadId |-> IF body.threadId = Absent \/ Get(body.threadId) = ""
                  THEN generateThreadId(emails)
                  ELSE Get(body.threadId),
     subject |-> Trim(Get(body.subject)),
     from |-> <<"m">>,
     to |-> Trim(Get(body.to)),
     content |-> IF body.content = Absent THEN <<>> ELSE Trim(Get(body.content)),
     isRead |-> FALSE,
     isImportant |-> FALSE,
     isDeleted |-> FALSE,
     direction |-> IF body.direction = Absent THEN OUTGOING ELSE Get(body.direction),
     createdAt |-> now,
     updatedAt |-> now]

\* A record inserted with the thread id of the request, empty or not.
NewEmailKeepingThread(body) ==
    [id |-> Len(emails) + 1,
     threadId |-> IF body.threadId = Absent THEN generateThreadId(emails) ELSE Get(body.threadId),
     subject |-> Trim(Get(body.subject)),
     from |-> <<"m">>,
     to |-> Trim(Get(body.to)),
     content |-> IF body.content = Absent THEN <<>> ELSE Trim(Get(body.content)),
     isRead |-> TRUE,
     isImportant |-> FALSE,
     isDeleted |-> FALSE,
     direction |-> IF body.direction = Absent THEN OUTGOING ELSE Get(body.direction),
     createdAt |-> now,
     updatedAt |-> now]

\* The record POST inserts.
NewEmail(body) ==
    [id |-> Len(emails) + 1,
     threadId |-> IF body.threadId = Absent \/ Get(body.threadId) = ""
                  THEN generateThreadId(emails)
                  ELSE Get(body.threadId),
     subject |-> Trim(Get(body.subject)),
     from |-> <<"m">>,
     to |-> Trim(Get(body.to)),
     content |-> IF body.content = Absent THEN <<>> ELSE Trim(Get(body.content)),
     isRead |-> TRUE,
     isImportant |-> FALSE,
     isDeleted |-> FALSE,
     direction |-> IF body.direction = Absent THEN OUTGOING ELSE Get(body.direction),
     createdAt |-> now,
     updatedAt |-> now]

\* POST /api/emails: the tables and the response it leaves.
PostOutcome(body) ==
    IF BlankField(body.subject)
    THEN Outcome(emails, emailStats, errorResponse("POST", "Subject is required", 400))
    ELSE IF BlankField(body.to)
    THEN Outcome(emails, emailStats, errorResponse("POST", "Recipient (to) is required", 400))
    ELSE LET inserted == Append(emails, NewEmail(body))
         IN  Outcome(inserted, Some(recalculateStats(inserted, now).row),
                     successResponse("POST", 201, "", {NewEmail(body).id}, Absent))

\* POST /api/emails, while the table has room for the record.
POST(body) ==
    /\ Len(PostOutcome(body).emails) <= MaxEmails
    /\ Handled(PostOutcome(body))

(* The request bodies of POST that are tried: every way to leave the       *)
(* subject or the recipient blank, and the valid bodies, with or without   *)
(* a thread (a reply names a thread of the table) and a direction.         *)
UsedThreads(table) == {table[i].threadId : i \in 1..Len(table)}

PostBody(subject, to, content, threadId, direction) ==
    [subject |-> subject, to |-> to, content |-> content, threadId |-> threadId,
     direction |-> direction]

BlankTexts == {Absent, Some(<<>>), Some(<<" ">>)}

InvalidPostBodies ==
    {PostBody(sub, Some(<<"x">>), Absent, Absent, Absent) : sub \in BlankTexts}
    \cup {PostBody(Some(<<"a">>), to, Absent, Absent, Absent) : to \in BlankTexts}
    \cup {PostBody(Absent, Absent, Absent, Absent, Absent)}

ValidPostBodies(table, directions) ==
    {PostBody(Some(<<" ", "a">>), Some(<<"x", " ">>), c, t, d) :
        c \in {Absent},
        t \in {Absent, Some("")} \cup {Some(u) : u \in UsedThreads(table)},
        d \in directions}

\* An update that drops the important flag unless the request sets it.
ApplyUpdateDroppingImportant(e, body, time) ==
    [e EXCEPT !.updatedAt = time,
              !.isRead = IF body.isRead = Absent THEN @ ELSE Get(body.isRead),
              !.isImportant = body.isImportant = Some(TRUE),
              !.isDeleted = IF body.isDeleted = Absent THEN @ ELSE Get(body.isDeleted)]

\* An update that clears the flags the request leaves out.
ApplyUpdateClearing(e, body, time) ==
    [e EXCEPT !.updatedAt = time,
              !.isRead = body.isRead = Some(TRUE),
              !.isImportant = body.isImportant = Some(TRUE),
              !.isDeleted = body.isDeleted = Some(TRUE)]

\* The row after db.update(...).set(updateData): the flags present in the
\* request and updatedAt.
ApplyUpdate(e, body, time) ==
    [e EXCEPT !.updatedAt = time,
              !.isRead = IF body.isRead = Absent THEN @ ELSE Get(body.isRead),
              !.isImportant = IF body.isImportant = Absent THEN @ ELSE Get(body.isImportant),
              !.isDeleted = IF body.isDeleted = Absent THEN @ ELSE Get(body.isDeleted)]

\* The condition of PATCH: the thread when a threadId is given, else the id.
PatchCondition(body, e) ==
    IF body.threadId # Absent /\ Get(body.threadId) # ""
    THEN e.threadId = Get(body.threadId)
    ELSE e.id = Get(body.id)

\* A check that refuses a request lacking either of the two.
PatchNotAddressedEither(body) ==
    (body.id = Absent \/ Get(body.id) = 0) \/ (body.threadId = Absent \/ Get(body.threadId) = "")

\* !id && !threadId of PATCH: a missing id or 0, a missing or empty threadId.
PatchNotAddressed(body) ==
    (body.id = Absent \/ Get(body.id) = 0) /\ (body.threadId = Absent \/ Get(body.threadId) = "")

\* PATCH /api/emails: the tables and the response it leaves.
PatchOutcome(body) ==
    IF PatchNotAddressed(body)
    THEN Outcome(emails, emailStats,
                 errorResponse("PATCH", "Email ID or Thread ID is required", 400))
    ELSE LET updatedEmails == {i \in 1..Len(emails) : PatchCondition(body, emails[i])}
             updated == [i \in 1..Len(emails) |->
                            IF i \in updatedEmails
                            THEN ApplyUpdate(emails[i], body, now)
                            ELSE emails[i]]
         IN  IF updatedEmails = {}
             THEN Outcome(emails, emailStats, errorResponse("PATCH", "Email(s) not found", 404))
             ELSE Outcome(updated, Some(recalculateStats(updated, now).row),
                          successResponse("PATCH", 200, "", updatedEmails,
                                          Some(recalculateStats(updated, now).stats)))

\* PATCH /api/emails
PATCH(body) == Handled(PatchOutcome(body))

OptBool == {Absent, Some(TRUE), Some(FALSE)}

PatchBody(id, threadId, isRead, isImportant, isDeleted) ==
    [id |-> id, threadId |-> threadId, isRead |-> isRead, isImportant |-> isImportant,
     isDeleted |-> isDeleted]

\* The flags of a request: none, each flag alone, and several at once.
FlagUpdates ==
    {<<r, Absent, Absent>> : r \in OptBool}
    \cup {<<Absent, i, Absent>> : i \in OptBool}
    \cup {<<Absent, Absent, d>> : d \in OptBool}
    \cup {<<Some(FALSE), Some(TRUE), Some(TRUE)>>, <<Some(TRUE), Absent, Some(FALSE)>>}

\* A thread id no record has.
NoSuchThread == "zz"

(* The request bodies of PATCH that are tried: addressed by an id (of the  *)
(* table or not), by a thread (of the table or not), by both, by neither.  *)
PatchBodies ==
    {PatchBody(Some(i), Absent, f[1], f[2], f[3]) : i \in 1..(MaxEmails + 1), f \in FlagUpdates}
    \cup {PatchBody(Absent, Some(t), f[1], f[2], f[3]) :
             t \in ThreadIds \cup {NoSuchThread}, f \in FlagUpdates}
    \cup {PatchBody(Some(1), Some(t), Absent, Some(TRUE), Absent) : t \in {"", ThreadNames[MaxEmails]}}
    \cup {PatchBody(i, t, Some(TRUE), Absent, Absent) :
             i \in {Absent, Some(0)}, t \in {Absent, Some("")}}

Digits == <<"0", "1", "2", "3", "4", "5", "6", "7", "8", "9">>

IsDigit(c) == \E d \in 1..Len(Digits) : Digits[d] = c

DigitValue(c) == (CHOOSE d \in 1..Len(Digits) : Digits[d] = c) - 1

\* The longest prefix of digits.
RECURSIVE DigitPrefix(_)
DigitPrefix(s) ==
    IF s # <<>> /\ IsDigit(Head(s)) THEN <<Head(s)>> \o DigitPrefix(Tail(s)) ELSE <<>>

RECURSIVE DecimalValue(_)
DecimalValue(ds) ==
    IF ds = <<>> THEN 0 ELSE 10 * DecimalValue(SubSeq(ds, 1, Len(ds) - 1)) + DigitValue(ds[Len(ds)])

\* parseInt(text, 10): leading blanks are skipped, an optional sign and the
\* longest run of digits are read, the rest is ignored; Absent is NaN.
parseInt(text) ==
    LET t == TrimLeft(text)
        negative == t # <<>> /\ Head(t) = "-"
        unsigned == IF t # <<>> /\ Head(t) \in {"-", "+"} THEN Tail(t) ELSE t
        ds == DigitPrefix(unsigned)
    IN  IF ds = <<>> THEN Absent
        ELSE Some(IF negative THEN 0 - DecimalValue(ds) ELSE DecimalValue(ds))

\* A condition that ignores the filter.
DeleteWholeThread(params, e) ==
    e.threadId = Get(params.threadId) /\ ~e.isDeleted

\* The condition of DELETE for a request that names a thread.
DeleteThreadCondition(params, e) ==
    /\ e.threadId = Get(params.threadId)
    /\ ~e.isDeleted
    /\ params.filter = Some("important") => e.isImportant

\* A soft-delete by id that passes over the records already deleted.
DeleteOutcomeSkippingDeleted(params) ==
    LET noId == params.id = Absent \/ Get(params.id) = <<>>
        noThread == params.threadId = Absent \/ Get(params.threadId) = ""
    IN  IF noId /\ noThread
        THEN Outcome(emails, emailStats,
                     errorResponse("DELETE", "Email ID or Thread ID is required", 400))
        ELSE IF noThread /\ parseInt(Get(params.id)) = Absent
        THEN Outcome(emails, emailStats, errorResponse("DELETE", "Invalid email ID", 400))
        ELSE LET deleted == {i \in 1..Len(emails) :
                                IF noThread
                                THEN /\ emails[i].id = Get(parseInt(Get(params.id)))
                                     /\ ~emails[i].isDeleted
                                ELSE DeleteThreadCondition(params, emails[i])}
                 updated == [i \in 1..Len(emails) |->
                                IF i \in deleted
                                THEN [emails[i] EXCEPT !.isDeleted = TRUE, !.updatedAt = now]
                                ELSE emails[i]]
             IN  IF deleted = {}
                 THEN Outcome(emails, emailStats,
                              errorResponse("DELETE", "Email(s) not found", 404))
                 ELSE Outcome(updated, Some(recalculateStats(updated, now).row),
                              successResponse("DELETE", 200,
                                  IF noThread THEN "Email moved to trash"
                                              ELSE "Thread moved to trash",
                                  deleted, Some(recalculateStats(updated, now).stats)))

\* DELETE /api/emails: the tables and the response it leaves.
DeleteOutcome(params) ==
    LET noId == params.id = Absent \/ Get(params.id) = <<>>
        noThread == params.threadId = Absent \/ Get(params.threadId) = ""
    IN  IF noId /\ noThread
        THEN Outcome(emails, emailStats,
                     errorResponse("DELETE", "Email ID or Thread ID is required", 400))
        ELSE IF noThread /\ parseInt(Get(params.id)) = Absent
        THEN Outcome(emails, emailStats, errorResponse("DELETE", "Invalid email ID", 400))
        ELSE LET deleted == {i \in 1..Len(emails) :
                                IF noThread
                                THEN emails[i].id = Get(parseInt(Get(params.id)))
                                ELSE DeleteThreadCondition(params, emails[i])}
                 updated == [i \in 1..Len(emails) |->
                                IF i \in deleted
                                THEN [emails[i] EXCEPT !.isDeleted = TRUE, !.updatedAt = now]
                                ELSE emails[i]]
             IN  IF deleted = {}
                 THEN Outcome(emails, emailStats,
                              errorResponse("DELETE", "Email(s) not found", 404))
                 ELSE Outcome(updated, Some(recalculateStats(updated, now).row),
                              successResponse("DELETE", 200,
                                  IF noThread THEN "Email moved to trash"
                                              ELSE "Thread moved to trash",
                                  deleted, Some(recalculateStats(updated, now).stats)))

\* DELETE /api/emails
DELETE(params) == Handled(DeleteOutcome(params))

DeleteParam(id, threadId, filter) == [id |-> id, threadId |-> threadId, filter |-> filter]

(* The URL parameters of DELETE that are tried: an id that is a number of  *)
(* the table or not, or no number at all; a thread, alone or with a        *)
(* filter; both; neither.                                                  *)
DeleteParams ==
    {DeleteParam(Some(id), Absent, Absent) :
        id \in {<<Digits[i + 1]>> : i \in 1..(MaxEmails + 1)} \cup {<<"x">>, <<"1", "x">>, <<" ", "1">>}}
    \cup {DeleteParam(Absent, Some(t), f) :
             t \in ThreadIds \cup {NoSuchThread},
             f \in {Absent, Some("important"), Some("inbox")}}
    \cup {DeleteParam(Some(<<"1">>), Some(ThreadNames[MaxEmails]), Absent)}
    \cup {DeleteParam(i, t, Absent) : i \in {Absent, Some(<<>>)}, t \in {Absent, Some("")}}

\* GET /api/emails/stats: getStats recalculates when the stats table is empty.
StatsGET ==
    Handled(Outcome(emails,
                    IF emailStats = Absent
                    THEN Some(recalculateStats(emails, now).row)
                    ELSE emailStats,
                    successResponse("GET stats", 200, "", {}, Some(getStats(emailStats, emails)))))

(* ------------------------- the list queries --------------------------- *)

FilterInputs == {Absent} \cup {Some(f) : f \in Filters}

QueryInputs == {Absent, Some(<<" ">>), Some(<<"a">>), Some(<<"A", " ">>), Some(<<"b">>)}

\* The predicate of a filter in the filter table; inbox is the default.
FilterPredicate(filter, e) ==
    CASE filter = Some("unread") -> ~e.isRead /\ ~e.isDeleted
      [] filter = Some("important") -> e.isImportant /\ ~e.isDeleted
      [] filter = Some("sent") -> e.direction = OUTGOING /\ ~e.isDeleted
      [] filter = Some("trash") -> e.isDeleted
      [] OTHER -> e.direction = INCOMING /\ ~e.isDeleted

\* C1 (as claimed): under every filter, search query and mode, every record
\* a list query returns satisfies the filter's predicate, so that only the
\* trash filter returns a deleted record.
C1_ReturnedSatisfyFilter ==
    \A filter \in FilterInputs, query \in QueryInputs, threaded \in BOOLEAN :
        \A e \in fetchEmails(emails, filter, query, threaded) :
            /\ FilterPredicate(filter, e)
            /\ e.isDeleted => filter = Some("trash")

\* The records of a thread that match filter and search.
ThreadMatches(threadId, filter, query) ==
    {e \in SeqToSet(emails) : e.threadId = threadId /\ Conditions(filter, query, e)}

\* C2 (as claimed): a threaded list query returns at most one record of
\* each thread, whose creation time is the greatest among the records of
\* the thread that match filter and search.
C2_OnePerThread ==
    \A filter \in FilterInputs, query \in QueryInputs :
        LET result == fetchEmails(emails, filter, query, TRUE)
        IN  \A e \in result :
                /\ \A other \in result : other.threadId = e.threadId => other = e
                /\ \A m \in ThreadMatches(e.threadId, filter, query) : m.createdAt <= e.createdAt

(* ------------------------- the thread query --------------------------- *)

ThreadInputs == ThreadIds \cup {NoSuchThread}

\* C3 (as claimed): fetching thread X under filter F returns exactly the
\* records of X that satisfy the predicate of the list filter F.
C3_ThreadFiveWay ==
    \A threadId \in ThreadInputs, filter \in FilterInputs :
        ThreadGET(emails, threadId, filter) =
            {e \in SeqToSet(emails) : e.threadId = threadId /\ FilterPredicate(filter, e)}

\* The selection the thread query makes: trash and important as in the
\* filter table, every other filter the records that are not deleted.
ThreadPredicate(filter, e) ==
    CASE filter = Some("trash") -> e.isDeleted
      [] filter = Some("important") -> e.isImportant /\ ~e.isDeleted
      [] OTHER -> ~e.isDeleted

\* C3 (amended): fetching thread X under filter F returns exactly the
\* records of X that are deleted (F = trash), important and not deleted
\* (F = important), or not deleted (inbox, unread, sent, no filter).
C3_ThreadThreeWay ==
    \A threadId \in ThreadInputs, filter \in FilterInputs :
        ThreadGET(emails, threadId, filter) =
            {e \in SeqToSet(emails) : e.threadId = threadId /\ ThreadPredicate(filter, e)}

\* A thread holds a read incoming record and a deleted record: the unread
\* and sent views of the thread return the first, the trash view the second.
C3_Witness ==
    \E a, b \in SeqToSet(emails) :
        /\ a.threadId = b.threadId
        /\ a.isRead /\ ~a.isDeleted /\ a.direction = INCOMING
        /\ b.isDeleted
        /\ a \in ThreadGET(emails, a.threadId, Some("unread"))
        /\ a \in ThreadGET(emails, a.threadId, Some("sent"))
        /\ b \in ThreadGET(emails, a.threadId, Some("trash"))

(* ------------------------------ the stats ----------------------------- *)

Matching(P(_)) == Cardinality({i \in 1..Len(emails) : P(emails[i])})

IsInbox(e) == e.direction = INCOMING /\ ~e.isDeleted

IsUnread(e) == ~e.isRead /\ ~e.isDeleted

IsUnreadIncoming(e) == e.direction = INCOMING /\ ~e.isRead /\ ~e.isDeleted

IsImportant(e) == e.isImportant /\ ~e.isDeleted

IsSent(e) == e.direction = OUTGOING /\ ~e.isDeleted

IsDeleted(e) == e.isDeleted

AfterMutation == resp.op \in {"POST", "PATCH", "DELETE"} /\ resp.status = "success"

C5_CountsMatchFilters ==
    (AfterMutation /\ resp.stats # Absent) =>
        LET listed(f) == Cardinality(fetchEmails(emails, Some(f), Absent, FALSE))
        IN  Get(resp.stats) =
                [total |-> listed("inbox"), unread |-> listed("unread"),
                 important |-> listed("important"), deleted |-> listed("trash"),
                 sent |-> listed("sent")]

(* ------------------------------- create ------------------------------- *)

AllPostBodies(table) == InvalidPostBodies \cup ValidPostBodies(table, {Absent, Some(INCOMING)})

\* A field that is missing, empty or made of blanks only.
IsBlankText(field) == field = Absent \/ \A i \in 1..Len(Get(field)) : Get(field)[i] = " "

\* C6: a create whose subject or recipient is missing, empty or blank is
\* answered 400 with status error, and the email table and the stats row
\* stay as they are.
C6_BlankCreateRejected ==
    \A body \in AllPostBodies(emails) :
        (IsBlankText(body.subject) \/ IsBlankText(body.to)) =>
            /\ PostOutcome(body).resp.code = 400
            /\ PostOutcome(body).resp.status = "error"
            /\ PostOutcome(body).emails = emails
            /\ PostOutcome(body).emailStats = emailStats

\* A create was refused while the table holds a record and the stats row exists.
C6_Witness ==
    /\ resp.op = "POST"
    /\ resp.code = 400
    /\ resp.error = "Recipient (to) is required"
    /\ Len(emails) > 0
    /\ emailStats # Absent

\* The text holds the query, the case of letters set aside.
ContainsCI(text, q) ==
    \E k \in 0..(Len(text) - Len(q)) : \A j \in 1..Len(q) : Lower(text[k + j]) = Lower(q[j])

\* The query is blank, or one of the four searched fields holds it.
BlankOrFound(query, e) ==
    \/ IsBlankText(query)
    \/ LET q == Trim(Get(query))
       IN  ContainsCI(e.subject, q) \/ ContainsCI(e.from, q) \/ ContainsCI(e.to, q)
              \/ ContainsCI(e.content, q)

\* The record a create without a direction must add.
CreatedAsClaimed(body, table, new) ==
    /\ new.direction = OUTGOING
    /\ new.isRead /\ ~new.isImportant /\ ~new.isDeleted
    /\ new.threadId # ""
    /\ IF body.threadId \in {Absent, Some("")}
       THEN new.threadId \notin UsedThreads(table)
       ELSE new.threadId = Get(body.threadId)

\* C7 (as claimed, for list queries without a search): every record that
\* is outgoing and not deleted is returned by the list query with
\* filter=sent, threaded or not.
C7_SentAlwaysListed ==
    \A e \in SeqToSet(emails) :
        (e.direction = OUTGOING /\ ~e.isDeleted) =>
            \A threaded \in BOOLEAN : e \in fetchEmails(emails, Some("sent"), Absent, threaded)

\* The handlers keep the records of the table, their order and directions.
DirectionsKept(outcome) ==
    /\ Len(outcome.emails) >= Len(emails)
    /\ \A i \in 1..Len(emails) : outcome.emails[i].direction = emails[i].direction

\* C7 (amended): a successful create without a direction answers 201 and
\* adds exactly one record, outgoing, read, not important, not deleted, in
\* a fresh non-empty thread or in the thread supplied; no handler changes
\* the direction of a record; and a record that is outgoing and not deleted
\* is returned by every non-threaded list query with filter=sent whose
\* query is blank or found in the record, and by the threaded one without
\* a query while no outgoing, not deleted record of its thread is newer.
C7_CreateThenSent ==
    /\ \A body \in AllPostBodies(emails) :
          LET after == PostOutcome(body)
          IN  /\ DirectionsKept(after)
              /\ (body.direction = Absent /\ after.resp.status = "success") =>
                    /\ after.resp.code = 201
                    /\ Len(after.emails) = Len(emails) + 1
                    /\ SubSeq(after.emails, 1, Len(emails)) = emails
                    /\ CreatedAsClaimed(body, emails, after.emails[Len(after.emails)])
    /\ \A body \in PatchBodies : DirectionsKept(PatchOutcome(body))
    /\ \A params \in DeleteParams : DirectionsKept(DeleteOutcome(params))
    /\ \A e \in SeqToSet(emails) :
          (e.direction = OUTGOING /\ ~e.isDeleted) =>
              /\ \A query \in QueryInputs :
                    BlankOrFound(query, e) =>
                        e \in fetchEmails(emails, Some("sent"), query, FALSE)
              /\ (\A m \in SeqToSet(emails) :
                     (m.threadId = e.threadId /\ m.direction = OUTGOING /\ ~m.isDeleted)
                         => m.createdAt <= e.createdAt)
                    => e \in fetchEmails(emails, Some("sent"), Absent, TRUE)

\* A reply was created a second after the first record of its thread: the
\* first is in the plain sent list and not in the threaded one.
C7_Witness ==
    /\ resp.op = "POST" /\ resp.code = 201
    /\ Len(emails) = 2
    /\ emails[1].threadId = emails[2].threadId
    /\ emails[1].createdAt < emails[2].createdAt
    /\ emails[1] \in fetchEmails(emails, Some("sent"), Absent, FALSE)
    /\ emails[1] \notin fetchEmails(emails, Some("sent"), Absent, TRUE)
    /\ emails[2] \in fetchEmails(emails, Some("sent"), Absent, TRUE)

(* ------------------------------- update ------------------------------- *)

\* The records a PATCH request addresses: those of the thread when a
\* thread is named, else the one with the id.
Addressed(body, e) ==
    IF body.threadId \notin {Absent, Some("")}
    THEN e.threadId = Get(body.threadId)
    ELSE body.id # Absent /\ e.id = Get(body.id)

\* The value of a flag after an update that may name it.
FlagAfter(requested, old) == IF requested = Absent THEN old ELSE Get(requested)

\* C8: an update changes, on the addressed records, the flags present in
\* the request and updatedAt and nothing else, and leaves every other
\* record as it is.
C8_UpdateFrame ==
    \A body \in PatchBodies :
        LET after == PatchOutcome(body).emails
        IN  /\ Len(after) = Len(emails)
            /\ \A i \in 1..Len(emails) :
                  IF Addressed(body, emails[i])
                  THEN /\ after[i].isRead = FlagAfter(body.isRead, emails[i].isRead)
                       /\ after[i].isImportant = FlagAfter(body.isImportant, emails[i].isImportant)
                       /\ after[i].isDeleted = FlagAfter(body.isDeleted, emails[i].isDeleted)
                       /\ after[i].updatedAt = now
                       /\ [after[i] EXCEPT !.isRead = TRUE, !.isImportant = TRUE,
                                           !.isDeleted = TRUE, !.updatedAt = 0]
                          = [emails[i] EXCEPT !.isRead = TRUE, !.isImportant = TRUE,
                                              !.isDeleted = TRUE, !.updatedAt = 0]
                  ELSE after[i] = emails[i]

\* An update addressed one of two records a second after both were
\* created, and set a flag on it.
C8_Witness ==
    /\ resp.op = "PATCH" /\ resp.code = 200
    /\ Len(emails) = 2
    /\ resp.emails = {1}
    /\ emails[1].updatedAt > emails[1].createdAt
    /\ emails[1].isImportant /\ emails[1].isRead /\ ~emails[1].isDeleted
    /\ emails[2].updatedAt = emails[2].createdAt

(* ------------------------- requests that fail ------------------------- *)

\* The request failed with the code, and wrote nothing.
Refused(outcome, code) ==
    /\ outcome.resp.code = code
    /\ outcome.resp.status = "error"
    /\ outcome.emails = emails
    /\ outcome.emailStats = emailStats

\* The text is the decimal numeral of a number that is no id of the table.
UnknownIdText(text) ==
    /\ Len(text) = 1
    /\ IsDigit(text[1])
    /\ \A i \in 1..Len(emails) : emails[i].id # DigitValue(text[1])

\* C9: an update or a soft-delete with neither id nor threadId is answered
\* 400, one whose id or threadId matches no record is answered 404, both
\* with status error and with the email table and the stats row unchanged.
C9_NotAddressable ==
    /\ \A body \in PatchBodies :
          /\ (body.id = Absent /\ body.threadId = Absent) => Refused(PatchOutcome(body), 400)
          /\ (\/ /\ body.threadId \notin {Absent, Some("")}
                 /\ \A i \in 1..Len(emails) : emails[i].threadId # Get(body.threadId)
              \/ /\ body.threadId = Absent
                 /\ body.id \notin {Absent, Some(0)}
                 /\ \A i \in 1..Len(emails) : emails[i].id # Get(body.id))
                => Refused(PatchOutcome(body), 404)
    /\ \A params \in DeleteParams :
          /\ (params.id = Absent /\ params.threadId = Absent) =>
                Refused(DeleteOutcome(params), 400)
          /\ (\/ /\ params.threadId \notin {Absent, Some("")}
                 /\ \A i \in 1..Len(emails) : emails[i].threadId # Get(params.threadId)
              \/ /\ params.threadId = Absent
                 /\ params.id # Absent
                 /\ UnknownIdText(Get(params.id)))
                => Refused(DeleteOutcome(params), 404)

\* An update was answered 404 while the table holds records and a stats row.
C9_Witness ==
    /\ resp.op = "PATCH"
    /\ resp.code = 404
    /\ Len(emails) > 0
    /\ emailStats # Absent

(* ---------------------------- soft-delete ----------------------------- *)

\* C10: a soft-delete that names a thread sets deleted on the records of
\* the thread that are not deleted (and important, when filter=important)
\* and changes no other flag and no other record.
C10_ThreadDeleteFrame ==
    \A params \in DeleteParams :
        params.threadId \notin {Absent, Some("")} =>
            LET after == DeleteOutcome(params).emails
            IN  /\ Len(after) = Len(emails)
                /\ \A i \in 1..Len(emails) :
                      IF /\ emails[i].threadId = Get(params.threadId)
                         /\ ~emails[i].isDeleted
                         /\ params.filter = Some("important") => emails[i].isImportant
                      THEN /\ after[i].isDeleted
                           /\ after[i].isRead = emails[i].isRead
                           /\ after[i].isImportant = emails[i].isImportant
                      ELSE after[i] = emails[i]

\* A thread was soft-deleted under filter=important: its important record
\* is deleted, its other record is not.
C10_Witness ==
    /\ resp.op = "DELETE" /\ resp.code = 200
    /\ resp.message = "Thread moved to trash"
    /\ Len(emails) = 2
    /\ emails[1].threadId = emails[2].threadId
    /\ resp.emails = {1}
    /\ emails[1].isImportant /\ emails[1].isDeleted
    /\ ~emails[2].isImportant /\ ~emails[2].isDeleted

(* ------------------------ soft-delete by id --------------------------- *)

\* The URL parameters of a soft-delete of the record with the id.
DeleteById(id) == DeleteParam(Some(<<Digits[id + 1]>>), Absent, Absent)

\* The two tables hold the same records, updatedAt set aside.
SameButUpdatedAt(after, before) ==
    /\ Len(after) = Len(before)
    /\ \A i \in 1..Len(before) : [after[i] EXCEPT !.updatedAt = 0] = [before[i] EXCEPT !.updatedAt = 0]

\* The counters of the two stats rows are the same.
SameCounters(after, before) ==
    /\ after # Absent /\ before # Absent
    /\ [Get(after) EXCEPT !.updatedAt = 0] = [Get(before) EXCEPT !.updatedAt = 0]

\* C11: a soft-delete by the id of a record of the table is answered 200
\* whatever the flags of the record, leaves the record deleted and every
\* other field and record as it was; on a record that is deleted already
\* (a second soft-delete of it) it is answered 200 as well and changes
\* nothing but updatedAt, in the email table and in the stats row.
C11_DeleteByIdIdempotent ==
    \A i \in 1..Len(emails) :
        LET after == DeleteOutcome(DeleteById(emails[i].id))
        IN  /\ after.resp.code = 200
            /\ after.resp.status = "success"
            /\ Len(after.emails) = Len(emails)
            /\ after.emails[i].isDeleted
            /\ SameButUpdatedAt(after.emails, [emails EXCEPT ![i].isDeleted = TRUE])
            /\ emails[i].isDeleted =>
                  /\ SameButUpdatedAt(after.emails, emails)
                  /\ SameCounters(after.emailStats, emailStats)

\* A record that is unread and important was soft-deleted by its id a
\* second after it was created, beside a record that is deleted already.
C11_Witness ==
    /\ resp.op = "DELETE" /\ resp.code = 200
    /\ resp.message = "Email moved to trash"
    /\ resp.emails = {1}
    /\ Len(emails) = 2
    /\ emails[1].isDeleted /\ emails[1].isImportant /\ ~emails[1].isRead
    /\ emails[1].updatedAt > emails[1].createdAt
    /\ emails[2].isDeleted

\* The text is a decimal numeral: digits and nothing else.
WellFormedId(text) == text # <<>> /\ \A k \in 1..Len(text) : IsDigit(text[k])

\* C12 (as claimed, whichever error code is returned): a soft-delete that
\* names no thread and whose id is not a decimal numeral is answered with
\* status error and changes neither the email table nor the stats row.
C12_MalformedIdRejected ==
    \A params \in DeleteParams :
        (/\ params.threadId = Absent
         /\ params.id # Absent
         /\ ~WellFormedId(Get(params.id)))
            => LET after == DeleteOutcome(params)
               IN  /\ after.resp.status = "error"
                   /\ after.emails = emails
                   /\ after.emailStats = emailStats

(* ---------------------- soft-delete, then restore --------------------- *)

\* The restore of the client: PATCH {id, isDeleted: false}.
RestoreById(id) == PatchBody(Some(id), Absent, Absent, Absent, Some(FALSE))

\* The records of a query result, updatedAt set aside.
Observed(result) == {[e EXCEPT !.updatedAt = 0] : e \in result}

\* What a client can observe of the two tables is the same: the fields of
\* every record but updatedAt, the result of every list query and thread
\* query, and the stats read.
SameObservable(tableAfter, statsAfter, table, statsTable) ==
    /\ SameButUpdatedAt(tableAfter, table)
    /\ \A filter \in FilterInputs, query \in QueryInputs, threaded \in BOOLEAN :
          Observed(fetchEmails(tableAfter, filter, query, threaded))
              = Observed(fetchEmails(table, filter, query, threaded))
    /\ \A threadId \in ThreadInputs, filter \in FilterInputs :
          Observed(ThreadGET(tableAfter, threadId, filter))
              = Observed(ThreadGET(table, threadId, filter))
    /\ getStats(statsAfter, tableAfter) = getStats(statsTable, table)

\* The step is a successful soft-delete of record i by its id.
DeletedById(i) ==
    /\ Idle
    /\ resp'.op = "DELETE" /\ resp'.code = 200
    /\ resp'.message = "Email moved to trash"
    /\ resp'.emails = {i}

\* C13 (as claimed): when a record, in whatever state, is soft-deleted by
\* its id, restoring it next leaves what a client can observe as it was
\* before the soft-delete.
C13_RoundTripAnyRecord ==
    [][\A i \in 1..Len(emails) :
          DeletedById(i) =>
              \A restored \in {PatchOutcome(RestoreById(emails[i].id))'} :
                  SameObservable(restored.emails, restored.emailStats, emails, emailStats)]_vars

\* C13 (amended): when a record that is not deleted is soft-deleted by its
\* id, restoring it next is answered 200 and leaves what a client can
\* observe as it was before the soft-delete; only updatedAt may differ.
C13_RoundTripOfLiveRecord ==
    [][\A i \in 1..Len(emails) :
          (DeletedById(i) /\ ~emails[i].isDeleted) =>
              \A restored \in {PatchOutcome(RestoreById(emails[i].id))'} :
                  /\ restored.resp.code = 200
                  /\ SameObservable(restored.emails, restored.emailStats, emails, emailStats)]_vars

\* A record that is unread and important was soft-deleted by its id a
\* second after it was created, beside a record that is not deleted.
C13_Witness ==
    /\ resp.op = "DELETE" /\ resp.code = 200
    /\ resp.message = "Email moved to trash"
    /\ resp.emails = {2}
    /\ Len(emails) = 2
    /\ emails[2].isDeleted /\ emails[2].isImportant /\ ~emails[2].isRead
    /\ emails[2].updatedAt > emails[2].createdAt
    /\ emails[1].threadId = emails[2].threadId
    /\ ~emails[1].isDeleted

(* --------------------------- the read flag ---------------------------- *)

\* C14 (as claimed): no step of a handler takes a record that is read back
\* to not read.
C14_ReadOneWay ==
    [][\A i \in 1..Len(emails) : emails[i].isRead => emails'[i].isRead]_vars

\* No handler is running statement by statement.
NoHandlers == handlers = [h \in 1..MaxHandlers |-> Absent]

(* ============================ useDebouncedState ======================== *)
(* The hook with the calls made to it.  Time is counted in units of 100 ms; *)
(* a timer runs its callback at the instant it is due, and the clock does   *)
(* not pass that instant before it has.  events is a history the code does  *)
(* not keep: the calls of setValue and flush, the unmount, and the calls    *)
(* the hook makes to onExternalChange, in order, each with its instant.     *)

\* delay: number = 300
DEFAULT_DELAY == 3

\* The values typed into the field.
InputValues == {"a", "b"}

\* The delay argument: left out, or given.
DelayArguments == {Absent, Some(1), Some(2)}

Event(kind, value, at) == [kind |-> kind, value |-> value, at |-> at]

DebouncedState(externalValue, delay) ==
    [delay |-> IF delay = Absent THEN DEFAULT_DELAY ELSE Get(delay),
     externalValue |-> externalValue,
     localValue |-> externalValue,
     timeoutRef |-> Absent,
     mounted |-> TRUE,
     time |-> 0,
     events |-> <<>>]

\* The hook before it is rendered with a delay.
DebounceIdle == DebouncedState("", Absent)

(* ========================== useDelayedAction ========================== *)
(* The page's use of the hook: mark the selected email as read after one   *)
(* second.  The timer is kept with the time it has left, in units of 100   *)
(* ms.  requested is a history the code does not keep: the requests made   *)
(* since the selection was last set, and the email of the latest one.      *)

\* useDelayedAction(..., handleMarkAsRead, 1000)
MARK_AS_READ_DELAY == 10

\* The emails of the page that can be selected.
Selectable == {1, 2}

DelayedAction(selectedEmail, timerRef, pending, requested, latest) ==
    [selectedEmail |-> selectedEmail, timerRef |-> timerRef, pending |-> pending,
     requested |-> requested, latest |-> latest]

\* No email is selected, no timer is set.
DelayedIdle == DelayedAction(Absent, Absent, [id \in Selectable |-> 0], 0, 0)

(* ============================ useMinDuration ========================== *)
(* The hook's state and ref, its timer (with the time it is due), its two  *)
(* arguments and the clock, in units of 100 ms.  since, until and hidden   *)
(* are a history the code does not keep: when isActive last became true,   *)
(* when it became false after that, and when the value turned false.       *)

\* const MIN_SKELETON_DISPLAY_MS = 300
MIN_SKELETON_DISPLAY_MS == 3

MinDurationArguments == {2, MIN_SKELETON_DISPLAY_MS}

\* An effect that waits the whole minimum from the moment isActive turns
\* false.
minDurationEffectFromNow(d) ==
    IF d.isActive
    THEN [d EXCEPT !.startTimeRef = Some(d.time), !.showActive = TRUE, !.timer = Absent]
    ELSE IF d.startTimeRef # Absent
    THEN [d EXCEPT !.timer = Some(d.time + d.minDuration)]
    ELSE [d EXCEPT !.timer = Absent]

\* The timer an effect has set is cleared by its cleanup; when isActive the
\* period starts now; otherwise, when a period has started, the value
\* turns false after what is left of it, or at once when nothing is left.
minDurationEffect(d) ==
    IF d.isActive
    THEN [d EXCEPT !.startTimeRef = Some(d.time), !.showActive = TRUE, !.timer = Absent]
    ELSE IF d.startTimeRef # Absent
    THEN LET elapsed == d.time - Get(d.startTimeRef)
             remaining == d.minDuration - elapsed
         IN  IF remaining > 0
             THEN [d EXCEPT !.timer = Some(d.time + remaining)]
             ELSE [d EXCEPT !.showActive = FALSE, !.startTimeRef = Absent, !.timer = Absent,
                            !.hidden = Some(d.time)]
    ELSE [d EXCEPT !.timer = Absent]

\* useMinDuration(isActive, minDuration) after its first render and effect.
MinDuration(isActive, minDuration) ==
    minDurationEffect([isActive |-> isActive, minDuration |-> minDuration,
                       showActive |-> isActive, startTimeRef |-> Absent, timer |-> Absent,
                       time |-> 0,
                       since |-> IF isActive THEN Some(0) ELSE Absent,
                       until |-> Absent, hidden |-> Absent])

MinDurationIdle == MinDuration(FALSE, MIN_SKELETON_DISPLAY_MS)

HooksIdle ==
    /\ debounce = DebounceIdle
    /\ delayed = DelayedIdle
    /\ minimum = MinDurationIdle

(* ============================== client =============================== *)
(* The query cache (TanStack Query v5) and the mutation hooks.  A cache    *)
(* entry is Absent (no query under the key) or holds one record: its data  *)
(* (Absent is undefined), isInvalidated and fetchStatus.                   *)

\* The list keys of the cache: emailKeys.list({filter}) for two filters.
ListKeys == {"inbox", "trash"}

\* emailKeys.thread(threadId) of the thread on display.
ThreadKey == "thread"

\* emailKeys.stats()
StatsKey == "stats"

CacheKeys == ListKeys \cup {ThreadKey, StatsKey}

\* The thread the thread panel shows.
OpenThread == "t1"

\* mutations: { retry: 1 }
MUTATION_RETRY == 1

Entry(data, isInvalidated, fetchStatus) ==
    [data |-> data, isInvalidated |-> isInvalidated, fetchStatus |-> fetchStatus]

\* The queries with an observer: the list on display, the thread, the stats.
Active(list) == {list, ThreadKey, StatsKey}

\* What the server answers to the fetch of a key.
ServerAnswer(k) ==
    IF k \in ListKeys THEN fetchEmails(emails, Some(k), Absent, FALSE)
    ELSE IF k = ThreadKey THEN ThreadGET(emails, OpenThread, Absent)
    ELSE getStats(emailStats, emails)

\* queryClient.cancelQueries: a fetch on its way is dropped, its result ignored.
cancelQueries(c, keys) ==
    [k \in CacheKeys |->
        IF k \in keys /\ c[k] # Absent
        THEN Some([Get(c[k]) EXCEPT !.fetchStatus = "idle"])
        ELSE c[k]]

\* queryClient.getQueriesData: the key and data of every query under the keys.
getQueriesData(c, keys) == {<<k, Get(c[k]).data>> : k \in {x \in keys : c[x] # Absent}}

\* queryClient.setQueryData: undefined data leaves the cache as it is; other
\* data is stored (the query is built when missing) and the entry is no
\* longer invalidated.
setQueryData(c, k, data) ==
    IF data = Absent THEN c
    ELSE [c EXCEPT ![k] = IF c[k] = Absent
                          THEN Some(Entry(data, FALSE, "idle"))
                          ELSE Some([Get(c[k]) EXCEPT !.data = data, !.isInvalidated = FALSE])]

\* queryClient.invalidateQueries: every query under the keys is marked
\* invalidated; those with an observer are fetched again, a fetch on its
\* way being cancelled.
invalidateQueries(c, keys, active) ==
    [k \in CacheKeys |->
        IF k \in keys /\ c[k] # Absent
        THEN Some([Get(c[k]) EXCEPT
                      !.isInvalidated = TRUE,
                      !.fetchStatus = IF k \in active THEN "fetching" ELSE @])
        ELSE c[k]]

\* A mutation under way: its hook and variables, how far it is, how often
\* it failed, the context onMutate returned and the response received.
\* listsBefore is a history field no hook reads: the list data at the
\* moment the mutation was started.
Mutation(kind, emailId, threadId, isImportant, body) ==
    [kind |-> kind, emailId |-> emailId, threadId |-> threadId, isImportant |-> isImportant,
     body |-> body, phase |-> "sent", failureCount |-> 0, context |-> Absent,
     result |-> Absent, listsBefore |-> {}]

\* The record is the one, or of the thread, the mutation names.
Targets(m, e) ==
    IF m.threadId # Absent THEN e.threadId = Get(m.threadId) ELSE e.id = m.emailId

\* The updater each hook hands to setQueriesData in onMutate.
OptimisticData(m, old) ==
    IF old = Absent THEN Some({})
    ELSE CASE m.kind \in {"delete", "restore"} ->
                 Some({e \in Get(old) : ~Targets(m, e)})
           [] m.kind = "markAsRead" ->
                 Some({IF e.id = m.emailId THEN [e EXCEPT !.isRead = TRUE] ELSE e : e \in Get(old)})
           [] m.kind = "toggleImportant" ->
                 Some({IF Targets(m, e) THEN [e EXCEPT !.isImportant = Get(m.isImportant)] ELSE e
                          : e \in Get(old)})

\* queryClient.setQueriesData over the list queries with the hook's updater.
setQueriesData(c, keys, m) ==
    [k \in CacheKeys |->
        IF k \in keys /\ c[k] # Absent
        THEN setQueryData(c, k, OptimisticData(m, Get(c[k]).data))[k]
        ELSE c[k]]

\* onMutate of the hooks other than useCreateEmail: the list fetches are
\* cancelled, the list data captured (not by useMarkAsRead) and patched.
onMutate(c, m) ==
    LET cancelled == cancelQueries(c, ListKeys)
    IN  [cache |-> setQueriesData(cancelled, ListKeys, m),
         context |-> IF m.kind = "markAsRead" THEN Absent
                     ELSE Some(getQueriesData(cancelled, ListKeys))]

\* onError of useDeleteEmail, useToggleImportant and useRestoreEmail.
RECURSIVE Rollback(_, _)
Rollback(c, previousEmails) ==
    IF previousEmails = {} THEN c
    ELSE LET pair == CHOOSE x \in previousEmails : TRUE
         IN  Rollback(setQueryData(c, pair[1], pair[2]), previousEmails \ {pair})

\* onSettled, and onSuccess of useCreateEmail: lists, threads and stats.
InvalidateAll(c, list) ==
    invalidateQueries(invalidateQueries(invalidateQueries(c, ListKeys, Active(list)),
                                        {ThreadKey}, Active(list)),
                      {StatsKey}, Active(list))

\* The callbacks that run when the mutation has its final response.
onCompletion(c, m, list) ==
    LET response == Get(m.result)
        succeeded == response.status = "success"
    IN  IF m.kind = "create"
        THEN IF succeeded THEN InvalidateAll(c, list) ELSE c
        ELSE LET afterCallback ==
                    IF succeeded
                    THEN IF m.kind \in {"markAsRead", "toggleImportant", "restore"}
                         THEN setQueryData(c, StatsKey, response.stats)
                         ELSE c
                    ELSE IF m.kind # "markAsRead" /\ m.context # Absent
                         THEN Rollback(c, Get(m.context))
                         ELSE c
             IN  InvalidateAll(afterCallback, list)

\* The request the service sends for the mutation, as the handler's outcome.
ServiceOutcome(m) ==
    CASE m.kind = "create" -> PostOutcome(Get(m.body))
      [] m.kind = "delete" ->
            IF m.threadId # Absent
            THEN DeleteOutcome(DeleteParam(Absent, m.threadId, Absent))
            ELSE DeleteOutcome(DeleteParam(Some(<<Digits[m.emailId + 1]>>), Absent, Absent))
      [] m.kind = "markAsRead" ->
            PatchOutcome(PatchBody(Some(m.emailId), Absent, Some(TRUE), Absent, Absent))
      [] m.kind = "toggleImportant" ->
            IF m.threadId # Absent
            THEN PatchOutcome(PatchBody(Absent, m.threadId, Absent, m.isImportant, Absent))
            ELSE PatchOutcome(PatchBody(Some(m.emailId), Absent, Absent, m.isImportant, Absent))
      [] m.kind = "restore" ->
            IF m.threadId # Absent
            THEN PatchOutcome(PatchBody(Absent, m.threadId, Absent, Absent, Some(FALSE)))
            ELSE PatchOutcome(PatchBody(Some(m.emailId), Absent, Absent, Absent, Some(FALSE)))

\* The table the page is first rendered from: one incoming record, unread.
SeedEmails ==
    << [id |-> 1, threadId |-> OpenThread, subject |-> <<"a">>, from |-> <<"b">>,
        to |-> <<"m">>, content |-> <<>>, isRead |-> FALSE, isImportant |-> FALSE,
        isDeleted |-> FALSE, direction |-> INCOMING, createdAt |-> 1, updatedAt |-> 1] >>

\* No query, no mutation: the client of the specifications of the server alone.
ClientIdle ==
    /\ cache = [k \in CacheKeys |-> Absent]
    /\ activeList = "inbox"
    /\ mutations = [i \in 1..MaxMutations |-> Absent]
    /\ issued = 0

\* The page as rendered by the server: the list on display and the stats
\* hold initialData, the thread has been fetched, no other list is cached.
InitClient ==
    /\ emails = SeedEmails
    /\ emailStats = Some(recalculateStats(SeedEmails, 1).row)
    /\ now = 1
    /\ resp = NoResponse
    /\ activeList = "inbox"
    /\ cache = [k \in CacheKeys |->
                   IF k = "trash" THEN Absent
                   ELSE Some(Entry(Some(IF k = "inbox"
                                        THEN fetchEmails(SeedEmails, Some("inbox"), Absent, FALSE)
                                        ELSE IF k = ThreadKey
                                        THEN ThreadGET(SeedEmails, OpenThread, Absent)
                                        ELSE recalculateStats(SeedEmails, 1).stats),
                                   FALSE, "idle"))]
    /\ mutations = [i \in 1..MaxMutations |-> Absent]
    /\ issued = 0
    /\ NoHandlers
    /\ HooksIdle

\* setActiveFilter: another list is put on display; its query is built and
\* fetched when it is new, fetched again when it is invalidated.
Navigate(k) ==
    /\ k # activeList
    /\ activeList' = k
    /\ cache' = [cache EXCEPT ![k] =
                    IF cache[k] = Absent THEN Some(Entry(Absent, FALSE, "fetching"))
                    ELSE IF Get(cache[k]).isInvalidated /\ Get(cache[k]).fetchStatus = "idle"
                    THEN Some([Get(cache[k]) EXCEPT !.fetchStatus = "fetching"])
                    ELSE cache[k]]
    /\ UNCHANGED <<vars, mutations, issued, handlers, hookVars>>

\* The fetch of a key is answered: the server's data is stored and the
\* entry is fresh.
FetchSucceed(k) ==
    /\ cache[k] # Absent
    /\ Get(cache[k]).fetchStatus = "fetching"
    /\ cache' = [cache EXCEPT ![k] = Some(Entry(Some(ServerAnswer(k)), FALSE, "idle"))]
    /\ UNCHANGED <<vars, activeList, mutations, issued, handlers, hookVars>>

\* The fetch fails: the data stays as it is.
FetchFail(k) ==
    /\ cache[k] # Absent
    /\ Get(cache[k]).fetchStatus = "fetching"
    /\ cache' = [cache EXCEPT ![k] = Some([Get(cache[k]) EXCEPT !.fetchStatus = "idle"])]
    /\ UNCHANGED <<vars, activeList, mutations, issued, handlers, hookVars>>

\* mutate: onMutate runs, then the request is sent.
Mutate(m) ==
    /\ issued < MaxMutations
    /\ issued' = issued + 1
    /\ IF m.kind = "create"
       THEN /\ cache' = cache
            /\ mutations' = [mutations EXCEPT ![issued + 1] =
                                Some([m EXCEPT !.listsBefore = getQueriesData(cache, ListKeys)])]
       ELSE /\ cache' = onMutate(cache, m).cache
            /\ mutations' = [mutations EXCEPT ![issued + 1] =
                                Some([m EXCEPT !.context = onMutate(cache, m).context,
                                               !.listsBefore = getQueriesData(cache, ListKeys)])]
    /\ UNCHANGED <<vars, activeList, handlers, hookVars>>

\* The handler runs on the request of the mutation and responds.
MutationServe(i) ==
    /\ mutations[i] # Absent
    /\ Get(mutations[i]).phase = "sent"
    /\ LET outcome == ServiceOutcome(Get(mutations[i]))
       IN  /\ Len(outcome.emails) <= MaxEmails
           /\ emails' = outcome.emails
           /\ emailStats' = outcome.emailStats
           /\ mutations' = [mutations EXCEPT ![i] =
                               Some([Get(mutations[i]) EXCEPT !.phase = "answered",
                                                              !.result = Some(outcome.resp)])]
    /\ UNCHANGED <<now, resp, cache, activeList, issued, handlers, hookVars>>

\* The request does not reach the server: apiRequest reports the error.
MutationLost(i) ==
    /\ mutations[i] # Absent
    /\ Get(mutations[i]).phase = "sent"
    /\ mutations' = [mutations EXCEPT ![i] =
                        Some([Get(mutations[i]) EXCEPT
                                 !.phase = "answered",
                                 !.result = Some(errorResponse("fetch", "Network error", 0))])]
    /\ UNCHANGED <<vars, cache, activeList, issued, handlers, hookVars>>

\* mutationFn threw and the mutation has a retry left: the request is sent again.
MutationRetry(i) ==
    /\ mutations[i] # Absent
    /\ Get(mutations[i]).phase = "answered"
    /\ Get(Get(mutations[i]).result).status = "error"
    /\ Get(mutations[i]).failureCount < MUTATION_RETRY
    /\ mutations' = [mutations EXCEPT ![i] =
                        Some([Get(mutations[i]) EXCEPT !.phase = "sent", !.result = Absent,
                                                       !.failureCount = @ + 1])]
    /\ UNCHANGED <<vars, cache, activeList, issued, handlers, hookVars>>

\* The mutation has its final response: its callbacks run and it is done.
Settle(i) ==
    /\ mutations[i] # Absent
    /\ Get(mutations[i]).phase = "answered"
    /\ \/ Get(Get(mutations[i]).result).status = "success"
       \/ Get(mutations[i]).failureCount >= MUTATION_RETRY
    /\ cache' = onCompletion(cache, Get(mutations[i]), activeList)
    /\ mutations' = [mutations EXCEPT ![i] = Absent]
    /\ UNCHANGED <<vars, activeList, issued, handlers, hookVars>>

\* The mutations the page starts: on the seeded record, by id or by thread,
\* and a create with a valid or a blank subject.
ClientMutations ==
    {Mutation("delete", 1, t, Absent, Absent) : t \in {Absent, Some(OpenThread)}}
    \cup {Mutation("restore", 1, Absent, Absent, Absent)}
    \cup {Mutation("markAsRead", 1, Absent, Absent, Absent)}
    \cup {Mutation("toggleImportant", 1, Absent, Some(TRUE), Absent)}
    \cup {Mutation("create", 0, Absent, Absent,
                   Some(PostBody(sub, Some(<<"x">>), Some(<<>>), Absent, Absent)))
             : sub \in {Some(<<"a">>), Some(<<" ">>)}}

NextClient ==
    \/ \E k \in ListKeys : Navigate(k)
    \/ \E k \in CacheKeys : FetchSucceed(k)
    \/ \E k \in CacheKeys : FetchFail(k)
    \/ \E m \in ClientMutations : Mutate(m)
    \/ \E i \in 1..MaxMutations : MutationServe(i)
    \/ \E i \in 1..MaxMutations : MutationLost(i)
    \/ \E i \in 1..MaxMutations : MutationRetry(i)
    \/ \E i \in 1..MaxMutations : Settle(i)

SpecClient == InitClient /\ [][NextClient]_allVars

(* ------------------------ completion of a mutation --------------------- *)

\* The step is the settling of mutation i: its callbacks have run.
Settled(i) == mutations[i] # Absent /\ mutations'[i] = Absent

\* The mutation's final response is an error.
Failed(m) == Get(m.result).status = "error"

\* C15: when a mutation of any kind completes, with success or with failure,
\* every list entry, every thread entry and the stats entry of the cache is
\* invalidated.
C15_CompletionInvalidatesAll ==
    [][\A i \in 1..MaxMutations :
          Settled(i) => \A k \in CacheKeys : cache'[k] # Absent => Get(cache'[k]).isInvalidated]_allVars

\* The hooks whose onMutate captures the lists and whose onError puts them back.
CapturingKinds == {"delete", "restore", "toggleImportant"}

\* C16: when a delete, a restore or a toggle-important fails, every list
\* entry cached when the optimistic change was made holds again the content
\* captured immediately before that change.
C16_FailureRestoresCaptured ==
    [][\A i \in 1..MaxMutations :
          (Settled(i) /\ Failed(Get(mutations[i])) /\ Get(mutations[i]).kind \in CapturingKinds)
              => \A pair \in Get(Get(mutations[i]).context) :
                    /\ cache'[pair[1]] # Absent
                    /\ Get(cache'[pair[1]]).data = pair[2]]_allVars

\* C17: when a mark-as-read fails, its optimistic read = true patch is
\* rolled back: every list entry that held data when the mutation was
\* started holds again the content it had before the mutation.
C17_FailedMarkAsReadReverted ==
    [][\A i \in 1..MaxMutations :
          (Settled(i) /\ Failed(Get(mutations[i])) /\ Get(mutations[i]).kind = "markAsRead")
              => \A pair \in Get(mutations[i]).listsBefore :
                    pair[2] # Absent => Get(cache'[pair[1]]).data = pair[2]]_allVars

(* ------------------- fetches during a mutation under way --------------- *)

\* The list keys the optimistic change of the mutation was applied to.
PatchedLists(m) == IF m.kind = "create" THEN {} ELSE {pair[1] : pair \in m.listsBefore}

\* C18: from the optimistic change of a mutation until that mutation has
\* settled, no result of a list fetch replaces the content of a list entry
\* the change was applied to.
C18_NoFetchOverwritesOptimistic ==
    [][\A i \in 1..MaxMutations : \A k \in ListKeys :
          (/\ mutations' = mutations
           /\ mutations[i] # Absent
           /\ k \in PatchedLists(Get(mutations[i])))
              => Get(cache'[k]).data = Get(cache[k]).data]_allVars

(* ===================== handlers running concurrently =================== *)
(* A handler awaits each statement it sends to the database: its write,    *)
(* the five COUNT queries of recalculateStats and the upsert of the stats  *)
(* row.  Each statement is one step; between two steps of one handler the  *)
(* steps of other handlers may run.                                        *)

\* The statements of recalculateStats in order, then the end of the handler.
RecalcOrder == <<"inbox", "unread", "important", "deleted", "sent", "upsert", "done">>

RECURSIVE IndexOf(_, _)
IndexOf(pc, i) == IF RecalcOrder[i] = pc THEN i ELSE IndexOf(pc, i + 1)

\* The statement after the one at pc.
After(pc) == RecalcOrder[IndexOf(pc, 1) + 1]

\* The running handler: its request, the statement it is at, the counts its
\* recalculateStats call has so far.  tables is a history field the code
\* does not have: the states of the emails table since that call began.
Running(request, pc, tables) ==
    [request |-> request, pc |-> pc,
     counts |-> [total |-> 0, unread |-> 0, important |-> 0, deleted |-> 0, sent |-> 0],
     tables |-> tables]

\* The handler is inside recalculateStats.
Recalculating(h) ==
    handlers[h] # Absent /\ Get(handlers[h]).pc \notin {"done", "failed"}

\* The response the handler's code path produces, by the request's method.
RequestOutcome(request) ==
    CASE request.op = "POST" -> PostOutcome(request.body)
      [] request.op = "PATCH" -> PatchOutcome(request.body)
      [] request.op = "DELETE" -> DeleteOutcome(request.body)

\* The handler's write: insert(emails) of POST, update(emails) of PATCH and
\* DELETE.  A handler that returns an error never calls recalculateStats.
HandlerWrite(h, request) ==
    /\ handlers[h] = Absent
    /\ LET outcome == RequestOutcome(request)
       IN  /\ Len(outcome.emails) <= MaxEmails
           /\ emails' = outcome.emails
           /\ handlers' =
                 [g \in 1..MaxHandlers |->
                     IF g = h
                     THEN IF outcome.resp.status = "error"
                          THEN Some(Running(request, "failed", {}))
                          ELSE Some(Running(request, "inbox", {outcome.emails}))
                     ELSE IF Recalculating(g)
                     THEN Some([Get(handlers[g]) EXCEPT !.tables = @ \cup {outcome.emails}])
                     ELSE handlers[g]]
    /\ UNCHANGED <<emailStats, now, resp, clientVars, hookVars>>

\* One COUNT query of recalculateStats, over the table as it is now.
HandlerCount(h) ==
    /\ Recalculating(h)
    /\ Get(handlers[h]).pc # "upsert"
    /\ LET pc == Get(handlers[h]).pc
           counted == IF pc = "inbox" THEN StatsOf(emails).total
                      ELSE IF pc = "unread" THEN StatsOf(emails).unread
                      ELSE IF pc = "important" THEN StatsOf(emails).important
                      ELSE IF pc = "deleted" THEN StatsOf(emails).deleted
                      ELSE StatsOf(emails).sent
           field == IF pc = "inbox" THEN "total" ELSE pc
       IN  handlers' = [handlers EXCEPT ![h] =
                           Some([Get(handlers[h]) EXCEPT !.counts[field] = counted,
                                                         !.pc = After(pc)])]
    /\ UNCHANGED <<vars, clientVars, hookVars>>

\* The upsert of the stats row with the counts of this call.
HandlerUpsert(h) ==
    /\ Recalculating(h)
    /\ Get(handlers[h]).pc = "upsert"
    /\ emailStats' = Some(StatsRow(Get(handlers[h]).counts, now))
    /\ handlers' = [handlers EXCEPT ![h] = Some([Get(handlers[h]) EXCEPT !.pc = "done"])]
    /\ UNCHANGED <<emails, now, resp, clientVars, hookVars>>

\* The requests that arrive at the same time: a create, updates of record 1
\* and the soft delete of record 1.
ConcurrentRequests ==
    {[op |-> "POST", body |-> PostBody(Some(<<"a">>), Some(<<"x">>), Some(<<>>), Absent, Absent)]}
    \cup {[op |-> "PATCH", body |-> PatchBody(Some(1), Absent, Some(TRUE), Absent, Absent)],
          [op |-> "PATCH", body |-> PatchBody(Some(1), Absent, Absent, Some(TRUE), Absent)],
          [op |-> "PATCH", body |-> PatchBody(Some(1), Absent, Absent, Absent, Some(FALSE))],
          [op |-> "PATCH", body |-> PatchBody(Some(2), Absent, Absent, Some(TRUE), Absent)]}
    \cup {[op |-> "DELETE", body |-> DeleteById(1)]}

InitConcurrent ==
    /\ emails = SeedEmails
    /\ emailStats = Some(recalculateStats(SeedEmails, 1).row)
    /\ now = 1
    /\ resp = NoResponse
    /\ ClientIdle
    /\ NoHandlers
    /\ HooksIdle

NextConcurrent ==
    \/ \E h \in 1..MaxHandlers : \E request \in ConcurrentRequests : HandlerWrite(h, request)
    \/ \E h \in 1..MaxHandlers : HandlerCount(h)
    \/ \E h \in 1..MaxHandlers : HandlerUpsert(h)

SpecConcurrent == InitConcurrent /\ [][NextConcurrent]_allVars

\* The four counters stored in the row, as the aggregates give them.
StoredCounters(stats) ==
    [inboxEmailCount |-> stats.total, unreadEmailCount |-> stats.unread,
     importantEmailCount |-> stats.important, sentEmailCount |-> stats.sent]

\* No handler is between its write and the end of its recalculation.
AllCompleted == \A h \in 1..MaxHandlers : ~Recalculating(h)

\* C19: once every handler has completed, the inbox, unread, important and
\* sent counters of the stored stats row equal the aggregates over the table.
C19_RowMatchesFinalTable ==
    AllCompleted =>
        /\ emailStats # Absent
        /\ [f \in DOMAIN StoredCounters(StatsOf(emails)) |-> Get(emailStats)[f]]
               = StoredCounters(StatsOf(emails))

\* C20: the counters one recalculateStats call has computed, and writes, all
\* equal the aggregates of one state of the table that existed during the call.
C20_CountsOfOneTable ==
    \A h \in 1..MaxHandlers :
        (handlers[h] # Absent /\ Get(handlers[h]).pc \in {"upsert", "done"})
            => \E table \in Get(handlers[h]).tables :
                  StoredCounters(Get(handlers[h]).counts) = StoredCounters(StatsOf(table))

(* ------------------------------- search ------------------------------- *)

\* The queries a list is searched with: those of the list queries, a
\* character of the stored texts, and the two characters LIKE reads as
\* wildcards.
SearchInputs == QueryInputs \cup {Some(<<"x">>), Some(<<"_">>), Some(<<"%">>), Some(<<"a", "_">>)}

\* q occurs in text, the case of letters aside.
Contains(text, q) ==
    \E i \in 0..(Len(text) - Len(q)) : \A j \in 1..Len(q) : Lower(text[i + j]) = Lower(q[j])

\* q occurs in the subject, the sender, the recipient or the content.
ContainedInSomeField(e, q) ==
    Contains(e.subject, q) \/ Contains(e.from, q) \/ Contains(e.to, q) \/ Contains(e.content, q)

\* C21: a list query that is not threaded returns, for a query that is not
\* blank, exactly the records that the filter selects and that contain the
\* trimmed query in one of the four fields, whatever characters the query
\* is made of; a blank query selects as the filter alone does.
C21_SearchIsSubstring ==
    \A filter \in FilterInputs, query \in SearchInputs :
        fetchEmails(emails, filter, query, FALSE) =
            {e \in SeqToSet(emails) :
                /\ getFilterCondition(filter, e)
                /\ (query # Absent /\ Trim(Get(query)) # <<>>)
                      => ContainedInSomeField(e, Trim(Get(query)))}

\* The same over the queries without the characters % and _ (not a claim:
\* it shows where the search and the substring test agree).
SearchOfPlainQueries ==
    \A filter \in FilterInputs, query \in QueryInputs \cup {Some(<<"x">>)} :
        fetchEmails(emails, filter, query, FALSE) =
            {e \in SeqToSet(emails) :
                /\ getFilterCondition(filter, e)
                /\ (query # Absent /\ Trim(Get(query)) # <<>>)
                      => ContainedInSomeField(e, Trim(Get(query)))}

(* --------------------------- a thread, in order ------------------------ *)

\* A thread query that orders the newest record first.
descCreatedAt(a, b) == a.createdAt >= b.createdAt

\* asc(emails.createdAt): a may come before b.
ascCreatedAt(a, b) == a.createdAt <= b.createdAt

\* orderBy(asc(emails.createdAt)): the orders the database may return the
\* rows in; rows of one creation time come in either order.
orderByCreatedAt(rows) ==
    {s \in [1..Cardinality(rows) -> rows] :
        /\ \A i, j \in 1..Cardinality(rows) : i # j => s[i] # s[j]
        /\ \A i, j \in 1..Cardinality(rows) : i < j => ascCreatedAt(s[i], s[j])}

\* GET /api/emails/thread/[threadId]: the responses it may give.  The path
\* segment of a request that is routed here is never empty, so the first
\* branch is taken by no request.
ThreadGETResponse(table, threadId, filter) ==
    IF threadId = ""
    THEN {[status |-> "error", code |-> 400, emails |-> <<>>, count |-> 0]}
    ELSE {[status |-> "success", code |-> 200, emails |-> threadEmails, count |-> Len(threadEmails)]
             : threadEmails \in orderByCreatedAt(ThreadGET(table, threadId, filter))}

\* C22: fetching a thread answers with success; the list holds every record
\* of the thread that the view selects, each once, the oldest first; the
\* count is the length of the list; a thread of no record gives an empty
\* list and count 0.
C22_ThreadInOrder ==
    \A threadId \in ThreadInputs, filter \in FilterInputs :
        \A response \in ThreadGETResponse(emails, threadId, filter) :
            LET selected == {e \in SeqToSet(emails) :
                                e.threadId = threadId /\ ThreadPredicate(filter, e)}
                listed == response.emails
            IN  /\ response.status = "success"
                /\ response.code = 200
                /\ {listed[i] : i \in 1..Len(listed)} = selected
                /\ Len(listed) = Cardinality(selected)
                /\ \A i \in 1..(Len(listed) - 1) : listed[i].createdAt <= listed[i + 1].createdAt
                /\ response.count = Len(listed)
                /\ (\A e \in SeqToSet(emails) : e.threadId # threadId)
                      => listed = <<>> /\ response.count = 0

\* A thread of two records created at different times is fetched and
\* answered with both, the older first; another thread id is answered with
\* an empty list.
C22_Witness ==
    /\ Len(emails) = 2
    /\ emails[1].threadId = emails[2].threadId
    /\ emails[1].createdAt < emails[2].createdAt
    /\ ThreadGETResponse(emails, emails[1].threadId, Absent)
          = {[status |-> "success", code |-> 200, emails |-> <<emails[1], emails[2]>>, count |-> 2]}
    /\ ThreadGETResponse(emails, NoSuchThread, Absent)
          = {[status |-> "success", code |-> 200, emails |-> <<>>, count |-> 0]}

(* ------------------------- records are kept --------------------------- *)

\* C23: in every state reached by creates, updates, soft deletes and
\* restores every record has a thread id that is not empty, and every step
\* keeps every record of the table, with its id and its thread id.
C23_RecordsKept ==
    [][/\ \A i \in 1..Len(emails') : emails'[i].threadId # ""
       /\ Len(emails') >= Len(emails)
       /\ \A i \in 1..Len(emails) :
             /\ emails'[i].id = emails[i].id
             /\ emails'[i].threadId = emails[i].threadId]_vars

\* A record was created with an empty thread id in the request, answered
\* in its thread, soft-deleted and restored; the last soft delete of its
\* thread has been answered.
C23_Witness ==
    /\ resp.op = "DELETE" /\ resp.code = 200
    /\ Len(emails) = 2
    /\ emails[1].id = 1 /\ emails[2].id = 2
    /\ emails[1].threadId = emails[2].threadId
    /\ emails[1].threadId # ""
    /\ emails[1].isDeleted /\ emails[2].isDeleted

\* The other variables stay as they are.
OnlyDebounce == UNCHANGED <<vars, clientVars, handlers, delayed, minimum>>

\* The timer of timeoutRef is still to run.
TimerPending(d) == d.timeoutRef # Absent /\ ~Get(d.timeoutRef).done

\* setValue that keeps the timer already set.
setValueKeepingTimer(d, newValue) ==
    [d EXCEPT !.localValue = newValue,
              !.timeoutRef = IF TimerPending(d) THEN @
                             ELSE Some([value |-> newValue, due |-> d.time + d.delay,
                                        done |-> FALSE]),
              !.events = Append(@, Event("setValue", newValue, d.time))]

\* setValue: the local value is set, the timer of timeoutRef is cleared and
\* a new timer is set.
setValue(d, newValue) ==
    [d EXCEPT !.localValue = newValue,
              !.timeoutRef = Some([value |-> newValue, due |-> d.time + d.delay, done |-> FALSE]),
              !.events = Append(@, Event("setValue", newValue, d.time))]

\* flush: the timer of timeoutRef is cleared.
flush(d) ==
    [d EXCEPT !.timeoutRef = Absent, !.events = Append(@, Event("flush", "", d.time))]

\* The cleanup of the effect: the timer of timeoutRef is cleared.
unmount(d) ==
    [d EXCEPT !.timeoutRef = Absent, !.mounted = FALSE,
              !.events = Append(@, Event("unmount", "", d.time))]

\* The timer runs: onExternalChange(newValue); the parent renders the hook
\* with the new external value, which the first effect copies.  timeoutRef
\* keeps the id of the timer that has run.
timerRuns(d) ==
    [d EXCEPT !.timeoutRef = Some([Get(@) EXCEPT !.done = TRUE]),
              !.externalValue = Get(d.timeoutRef).value,
              !.localValue = Get(d.timeoutRef).value,
              !.events = Append(@, Event("onExternalChange", Get(d.timeoutRef).value, d.time))]

InitDebounce ==
    /\ Init
    /\ ClientIdle
    /\ NoHandlers
    /\ \E delay \in DelayArguments : debounce = DebouncedState("", delay)
    /\ delayed = DelayedIdle
    /\ minimum = MinDurationIdle

SetValue(newValue) ==
    /\ debounce.mounted
    /\ Len(debounce.events) < MaxEvents
    /\ debounce' = setValue(debounce, newValue)
    /\ OnlyDebounce

Flush ==
    /\ debounce.mounted
    /\ Len(debounce.events) < MaxEvents
    /\ debounce' = flush(debounce)
    /\ OnlyDebounce

Unmount ==
    /\ debounce.mounted
    /\ Len(debounce.events) < MaxEvents
    /\ debounce' = unmount(debounce)
    /\ OnlyDebounce

TimerRuns ==
    /\ TimerPending(debounce)
    /\ Get(debounce.timeoutRef).due = debounce.time
    /\ Len(debounce.events) < MaxEvents
    /\ debounce' = timerRuns(debounce)
    /\ OnlyDebounce

\* 100 ms pass; a timer that is due runs first.
Elapse ==
    /\ debounce.time < MaxHookTime
    /\ ~(TimerPending(debounce) /\ Get(debounce.timeoutRef).due = debounce.time)
    /\ debounce' = [debounce EXCEPT !.time = @ + 1]
    /\ OnlyDebounce

NextDebounce ==
    \/ \E newValue \in InputValues : SetValue(newValue)
    \/ Flush
    \/ Unmount
    \/ TimerRuns
    \/ Elapse

SpecDebounce == InitDebounce /\ [][NextDebounce]_allVars

\* The events of the hook from the one after place i to the one before j.
Between(i, j) == {debounce.events[k] : k \in (i + 1)..(j - 1)}

\* The calls that end the wait of a setValue.
Interrupting == {"setValue", "flush", "unmount"}

\* The call of setValue at place i has not been followed by an interrupting
\* call before place j.
Uninterrupted(i, j) == \A e \in Between(i, j) : e.kind \notin Interrupting

\* C24: setValue sets the local value at once; onExternalChange is called
\* with v exactly when the delay (300 ms when none is given) has passed
\* since a call setValue(v) that no setValue, flush or unmount has followed:
\* every callback answers such a call, made one delay earlier, and answers
\* it once; every such call whose delay has passed has been answered.
C24_DebouncedCallback ==
    LET events == debounce.events
        n == Len(events)
    IN  /\ (n > 0 /\ events[n].kind = "setValue") => debounce.localValue = events[n].value
        /\ \A k \in 1..n :
              events[k].kind = "onExternalChange" =>
                  \E i \in 1..(k - 1) :
                      /\ events[i].kind = "setValue"
                      /\ events[i].value = events[k].value
                      /\ events[i].at + debounce.delay = events[k].at
                      /\ Between(i, k) = {}
        /\ \A i \in 1..n :
              (/\ events[i].kind = "setValue"
               /\ Uninterrupted(i, n + 1)
               /\ debounce.time > events[i].at + debounce.delay)
                  => \E k \in (i + 1)..n :
                        events[k] = Event("onExternalChange", events[i].value,
                                          events[i].at + debounce.delay)

\* A burst of two setValue calls with the default delay has been answered
\* by one callback, 300 ms after the second call, with the second value.
C24_Witness ==
    /\ debounce.delay = DEFAULT_DELAY
    /\ debounce.events = <<Event("setValue", "a", 0), Event("setValue", "b", 1),
                           Event("onExternalChange", "b", 4)>>
    /\ debounce.time = 6

\* After a flush and after an unmount the notification that was pending has
\* not been made though its delay has passed.
DebounceCancelledReached ==
    /\ debounce.events = <<Event("setValue", "a", 0), Event("flush", "", 1),
                           Event("setValue", "b", 1), Event("unmount", "", 2)>>
    /\ debounce.time = 6

(* ----------------- useDelayedAction: deferred mark-as-read ------------- *)

\* Boolean(selectedEmail && !selectedEmail.isRead)
condition(d) == d.selectedEmail # Absent /\ ~Get(d.selectedEmail).isRead

\* The effect of useDelayedAction, run after a render in which condition or
\* action has changed: the timer is cleared, and set again for the action of
\* this render when the condition holds.  The action changes with every
\* render of the provider, since handleMarkAsRead depends on the object
\* useMutation returns, which is a new one in every render.
effect(d) ==
    [d EXCEPT !.timerRef = IF condition(d)
                           THEN Some([id |-> Get(d.selectedEmail).id, left |-> MARK_AS_READ_DELAY])
                           ELSE Absent]

\* The other variables stay as they are.
OnlyDelayed == UNCHANGED <<vars, clientVars, handlers, debounce, minimum>>

\* setSelectedEmail(email) with an email of the list on display.
SelectEmail(id, isRead) ==
    /\ delayed.selectedEmail # Absent => Get(delayed.selectedEmail).id # id
    /\ delayed' = effect([delayed EXCEPT
                             !.selectedEmail = Some([id |-> id, isRead |-> isRead, inList |-> TRUE]),
                             !.requested = 0])
    /\ OnlyDelayed

\* setSelectedEmail(null)
ClearSelection ==
    /\ delayed.selectedEmail # Absent
    /\ delayed' = effect([delayed EXCEPT !.selectedEmail = Absent, !.requested = 0])
    /\ OnlyDelayed

\* The filter or the search changes and the list on display no longer holds
\* the selected email; the selection stays (it is cleared only between
\* trash and the other views).
ListLosesSelected ==
    /\ delayed.selectedEmail # Absent
    /\ Get(delayed.selectedEmail).inList
    /\ delayed' = effect([delayed EXCEPT !.selectedEmail = Some([Get(@) EXCEPT !.inList = FALSE])])
    /\ OnlyDelayed

\* 100 ms pass while the timer is set.
TimerElapses ==
    /\ delayed.timerRef # Absent
    /\ Get(delayed.timerRef).left > 0
    /\ delayed' = [delayed EXCEPT !.timerRef = Some([Get(@) EXCEPT !.left = @ - 1])]
    /\ OnlyDelayed

\* The timer runs handleMarkAsRead: markAsRead(selectedEmail.id) starts the
\* mutation, whose onMutate patches the lists; the sync effect copies the
\* patched email of the list on display into selectedEmail.  The provider
\* renders again and the effect runs.
TimerActs ==
    /\ delayed.timerRef # Absent
    /\ Get(delayed.timerRef).left = 0
    /\ delayed.requested < MaxEvents
    /\ delayed.pending[Get(delayed.timerRef).id] < MaxMutations
    /\ LET id == Get(delayed.timerRef).id
       IN  delayed' =
               effect([delayed EXCEPT
                          !.pending[id] = @ + 1,
                          !.requested = @ + 1,
                          !.latest = id,
                          !.selectedEmail =
                              IF @ # Absent /\ Get(@).id = id /\ Get(@).inList
                              THEN Some([Get(@) EXCEPT !.isRead = TRUE])
                              ELSE @])
    /\ OnlyDelayed

\* The mutation succeeds: the selected email, when it is the one marked,
\* becomes read.
MarkAsReadSucceeds(id) ==
    /\ delayed.pending[id] > 0
    /\ delayed' =
           effect([delayed EXCEPT
                      !.pending[id] = @ - 1,
                      !.selectedEmail =
                          IF @ # Absent /\ Get(@).id = id
                          THEN Some([Get(@) EXCEPT !.isRead = TRUE])
                          ELSE @])
    /\ OnlyDelayed

\* The mutation fails: mutateAsync rejects and selectedEmail stays as it is.
MarkAsReadFails(id) ==
    /\ delayed.pending[id] > 0
    /\ delayed' = effect([delayed EXCEPT !.pending[id] = @ - 1])
    /\ OnlyDelayed

InitDelayed ==
    /\ Init
    /\ ClientIdle
    /\ NoHandlers
    /\ HooksIdle

NextDelayed ==
    \/ \E id \in Selectable, isRead \in BOOLEAN : SelectEmail(id, isRead)
    \/ ClearSelection
    \/ ListLosesSelected
    \/ TimerElapses
    \/ TimerActs
    \/ \E id \in Selectable : MarkAsReadSucceeds(id)
    \/ \E id \in Selectable : MarkAsReadFails(id)

SpecDelayed == InitDelayed /\ [][NextDelayed]_allVars

\* C25: a timer is set only for the selected email while it is unread;
\* while one email stays selected, mark-as-read is requested at most once,
\* and only for that email.
C25_SingleShotPerSelection ==
    /\ delayed.timerRef # Absent =>
          /\ condition(delayed)
          /\ Get(delayed.timerRef).id = Get(delayed.selectedEmail).id
    /\ delayed.requested > 0 =>
          /\ delayed.selectedEmail # Absent
          /\ delayed.latest = Get(delayed.selectedEmail).id
    /\ delayed.requested <= 1

\* The same without the bound on the number of requests (not a claim: it
\* shows that one timer at most is set and that it is never left to act for
\* an earlier selection).
OneTimerForTheSelection ==
    /\ delayed.timerRef # Absent =>
          /\ condition(delayed)
          /\ Get(delayed.timerRef).id = Get(delayed.selectedEmail).id
    /\ delayed.requested > 0 =>
          /\ delayed.selectedEmail # Absent
          /\ delayed.latest = Get(delayed.selectedEmail).id

(* ------------------------- create with cc and bcc ---------------------- *)

\* The body of a request with the fields cc and bcc added.
WithCopies(body, cc, bcc) == body @@ [cc |-> cc, bcc |-> bcc]

\* Valid bodies that supply both cc and bcc.
CopiedPostBodies(table) ==
    {WithCopies(body, Some(<<"y">>), Some(<<" ", "z">>)) : body \in ValidPostBodies(table, {Absent})}

\* text.includes(q), as toContain tests it.
Includes(text, q) ==
    \E i \in 0..(Len(text) - Len(q)) : SubSeq(text, i + 1, i + Len(q)) = q

\* C26: when cc and bcc are supplied to create, the recipient stored in the
\* created record contains the main recipient together with the cc and bcc
\* recipients, marked 'cc:' and 'bcc:'.
C26_CopiesInRecipient ==
    \A body \in CopiedPostBodies(emails) :
        LET after == PostOutcome(body)
            created == after.emails[Len(after.emails)]
        IN  after.resp.status = "success" =>
                /\ Includes(created.to, Trim(Get(body.to)))
                /\ Includes(created.to, <<"c", "c", ":">>)
                /\ Includes(created.to, <<"b", "c", "c", ":">>)
                /\ Includes(created.to, Trim(Get(body.cc)))
                /\ Includes(created.to, Trim(Get(body.bcc)))

\* What the record does hold (not a claim): the main recipient, trimmed,
\* and nothing else.
RecipientIsMainOnly ==
    \A body \in CopiedPostBodies(emails) :
        LET after == PostOutcome(body)
        IN  after.resp.status = "success" =>
                after.emails[Len(after.emails)].to = Trim(Get(body.to))

(* ------------------- useMinDuration: the minimum period ---------------- *)

\* The other variables stay as they are.
OnlyMinDuration == UNCHANGED <<vars, clientVars, handlers, debounce, delayed>>

\* A timer is set and due now.
MinDurationDue == minimum.timer # Absent /\ Get(minimum.timer) = minimum.time

\* isActive becomes true: a render, then the effect.
Activate ==
    /\ ~minimum.isActive
    /\ minimum' = minDurationEffect([minimum EXCEPT !.isActive = TRUE,
                                                    !.since = Some(minimum.time),
                                                    !.until = Absent,
                                                    !.hidden = Absent])
    /\ OnlyMinDuration

\* isActive becomes false: a render, then the effect.
Deactivate ==
    /\ minimum.isActive
    /\ minimum' = minDurationEffect([minimum EXCEPT !.isActive = FALSE,
                                                    !.until = Some(minimum.time)])
    /\ OnlyMinDuration

\* The timer runs: setShowActive(false), startTimeRef.current = null.
MinDurationTimerRuns ==
    /\ MinDurationDue
    /\ minimum' = [minimum EXCEPT !.showActive = FALSE, !.startTimeRef = Absent,
                                  !.timer = Absent, !.hidden = Some(minimum.time)]
    /\ OnlyMinDuration

\* 100 ms pass; a timer that is due runs first.
MinDurationElapse ==
    /\ minimum.time < MaxHookTime
    /\ ~MinDurationDue
    /\ minimum' = [minimum EXCEPT !.time = @ + 1]
    /\ OnlyMinDuration

InitMinDuration ==
    /\ Init
    /\ ClientIdle
    /\ NoHandlers
    /\ debounce = DebounceIdle
    /\ delayed = DelayedIdle
    /\ \E isActive \in BOOLEAN, minDuration \in MinDurationArguments :
          minimum = MinDuration(isActive, minDuration)

NextMinDuration ==
    \/ Activate
    \/ Deactivate
    \/ MinDurationTimerRuns
    \/ MinDurationElapse

SpecMinDuration == InitMinDuration /\ [][NextMinDuration]_allVars

\* C27: from the moment t0 at which isActive became true the value is true
\* until t0 + minDuration at least, and while isActive is true; when
\* isActive turned false at t1 before t0 + minDuration the value turns
\* false at t0 + minDuration exactly (a reactivation in between starts a new
\* period); when it turned false at t1, t0 + minDuration or later, the
\* value turned false at t1; a hook that has never been active reports
\* false.
C27_MinimumPeriod ==
    /\ minimum.isActive => minimum.showActive
    /\ minimum.since = Absent => ~minimum.showActive
    /\ minimum.since # Absent =>
          LET t0 == Get(minimum.since)
              end == t0 + minimum.minDuration
          IN  /\ minimum.time < end => minimum.showActive
              /\ minimum.hidden # Absent =>
                    /\ minimum.until # Absent
                    /\ ~minimum.showActive
                    /\ Get(minimum.hidden) = IF Get(minimum.until) < end
                                             THEN end
                                             ELSE Get(minimum.until)
              /\ minimum.until # Absent =>
                    /\ Get(minimum.until) >= end => minimum.hidden = minimum.until
                    /\ minimum.time > end => minimum.hidden # Absent
                    /\ minimum.showActive <=> minimum.hidden = Absent

\* The value has turned false at the end of a second period: isActive
\* turned false early, true again, and false early again.
C27_Witness ==
    /\ minimum.since # Absent /\ Get(minimum.since) > 0
    /\ minimum.until # Absent
    /\ Get(minimum.until) < Get(minimum.since) + minimum.minDuration
    /\ minimum.hidden = Some(Get(minimum.since) + minimum.minDuration)
    /\ ~minimum.showActive

\* isActive turned false after the minimum: the value turned false at once.
MinDurationLateReached ==
    /\ minimum.since # Absent
    /\ minimum.until # Absent
    /\ Get(minimum.until) > Get(minimum.since) + minimum.minDuration
    /\ minimum.hidden = minimum.until

(* ------------------ create: a response lost on its way ----------------- *)

\* The handler runs on the request of the mutation, and its response does
\* not arrive: fetch rejects and apiRequest reports the error.
MutationAnswerLost(i) ==
    /\ mutations[i] # Absent
    /\ Get(mutations[i]).phase = "sent"
    /\ LET outcome == ServiceOutcome(Get(mutations[i]))
       IN  /\ Len(outcome.emails) <= MaxEmails
           /\ emails' = outcome.emails
           /\ emailStats' = outcome.emailStats
           /\ mutations' = [mutations EXCEPT ![i] =
                               Some([Get(mutations[i]) EXCEPT
                                        !.phase = "answered",
                                        !.result = Some(errorResponse("fetch", "Network error", 0))])]
    /\ UNCHANGED <<now, resp, cache, activeList, issued, handlers, hookVars>>

\* The creates the page starts.
CreateMutations == {m \in ClientMutations : m.kind = "create"}

\* The page on empty tables, nothing fetched yet.
InitCreate ==
    /\ Init
    /\ ClientIdle
    /\ NoHandlers
    /\ HooksIdle

NextCreate ==
    \/ \E k \in ListKeys : Navigate(k)
    \/ \E k \in CacheKeys : FetchSucceed(k)
    \/ \E k \in CacheKeys : FetchFail(k)
    \/ \E m \in CreateMutations : Mutate(m)
    \/ \E i \in 1..MaxMutations : MutationServe(i)
    \/ \E i \in 1..MaxMutations : MutationAnswerLost(i)
    \/ \E i \in 1..MaxMutations : MutationLost(i)
    \/ \E i \in 1..MaxMutations : MutationRetry(i)
    \/ \E i \in 1..MaxMutations : Settle(i)

SpecCreate == InitCreate /\ [][NextCreate]_allVars

\* C28: one invocation of the create mutation adds at most one record, in
\* every execution, lost responses included: the table, empty at first and
\* written by creates alone, never holds more records than creates invoked.
C28_OneRecordPerCreate == Len(emails) <= issued

(* ------------- a handler whose stats recalculation fails --------------- *)

\* The write of the handler has been made and the statement that
\* recalculates the stats throws: the handler's catch answers 500.  The
\* stats table stays as it was; a handler that answers before its write
\* (400, 404) never reaches the recalculation.
RecalculationFails(outcome, op, message) ==
    IF outcome.resp.status = "success"
    THEN Outcome(outcome.emails, emailStats, errorResponse(op, message, 500))
    ELSE outcome

POSTStatsFailing(body) ==
    /\ Len(PostOutcome(body).emails) <= MaxEmails
    /\ Handled(RecalculationFails(PostOutcome(body), "POST", "Failed to create email"))

PATCHStatsFailing(body) ==
    Handled(RecalculationFails(PatchOutcome(body), "PATCH", "Failed to update email"))

DELETEStatsFailing(params) ==
    Handled(RecalculationFails(DeleteOutcome(params), "DELETE", "Failed to delete email"))

InitFailing ==
    /\ Init
    /\ ClientIdle
    /\ NoHandlers
    /\ HooksIdle

(* The handlers within one second, with and without a failing stats        *)
(* recalculation.                                                          *)
NextFailing ==
    \/ \E body \in InvalidPostBodies \cup ValidPostBodies(emails, {Absent}) : POST(body)
    \/ \E body \in PatchBodies : PATCH(body)
    \/ \E params \in DeleteParams : DELETE(params)
    \/ \E body \in InvalidPostBodies \cup ValidPostBodies(emails, {Absent}) : POSTStatsFailing(body)
    \/ \E body \in PatchBodies : PATCHStatsFailing(body)
    \/ \E params \in DeleteParams : DELETEStatsFailing(params)
    \/ StatsGET
    \/ Deliver

SpecFailing == InitFailing /\ [][NextFailing]_allVars

\* C29: when the create, update or soft-delete handler answers with an
\* error (any 4xx or 5xx, the failure of the stats recalculation after the
\* write included), the email table is the same as before the request.
C29_ErrorLeavesTable ==
    [][(Idle /\ resp'.op \in {"POST", "PATCH", "DELETE"} /\ resp'.status = "error")
          => emails' = emails]_allVars

\* The same for the errors answered before the write: 400 and 404 (not a
\* claim).
EarlyErrorLeavesTable ==
    [][(Idle /\ resp'.op \in {"POST", "PATCH", "DELETE"} /\ resp'.code \in {400, 404})
          => emails' = emails]_allVars

(* --------------- overlapping optimistic mutations that fail ------------ *)

\* The mutations with an optimistic change and a rollback.
CapturingMutations == {m \in ClientMutations : m.kind \in CapturingKinds}

\* The list the page was rendered with.
RenderedInbox == fetchEmails(SeedEmails, Some("inbox"), Absent, FALSE)

\* No mutation is under way.
NoMutationUnderWay == \A i \in 1..MaxMutations : mutations[i] = Absent

(* The page while the network is down: no request reaches the server, so   *)
(* every mutation fails, after its retry, and no fetch brings new data.    *)
(* The lists hold before each mutation what the page was rendered with     *)
(* unless a rollback has left something else.                              *)
NextOverlap ==
    \/ \E k \in ListKeys : Navigate(k)
    \/ \E k \in CacheKeys : FetchFail(k)
    \/ \E m \in CapturingMutations : Mutate(m)
    \/ \E i \in 1..MaxMutations : MutationLost(i)
    \/ \E i \in 1..MaxMutations : MutationRetry(i)
    \/ \E i \in 1..MaxMutations : Settle(i)

SpecOverlap == InitClient /\ [][NextOverlap]_allVars

\* C30: when optimistic mutations (delete, restore, toggle-important)
\* overlap and fail, then after their rollbacks, in either order, the list
\* entry cached before the first of them started holds the content it had
\* then.
C30_OverlappingRollbacks ==
    NoMutationUnderWay =>
        /\ cache["inbox"] # Absent
        /\ Get(cache["inbox"]).data = Some(RenderedInbox)

\* What each rollback does (not a claim): a mutation started on the list
\* as rendered puts that list back when it fails.
RollbackRestoresSnapshot ==
    [][\A i \in 1..MaxMutations :
          (Settled(i) /\ <<"inbox", Some(RenderedInbox)>> \in Get(mutations[i]).listsBefore)
            => Get(cache'["inbox"]).data = Some(RenderedInbox)]_allVars

(* The handlers within one second: every flag, both directions, threads.   *)
Next ==
    \/ \E body \in InvalidPostBodies \cup ValidPostBodies(emails, {Absent, Some(INCOMING)})
                        \cup CopiedPostBodies(emails) :
          POST(body)
    \/ \E body \in PatchBodies : PATCH(body)
    \/ \E params \in DeleteParams : DELETE(params)
    \/ StatsGET
    \/ Deliver

\* The server alone: empty tables, no client, no handler under way.
InitServer == Init /\ ClientIdle /\ NoHandlers /\ HooksIdle

Spec == InitServer /\ [][Next]_allVars

(* The handlers with the clock running; every email is created outgoing.   *)
NextClock ==
    \/ Tick
    \/ \E body \in InvalidPostBodies \cup ValidPostBodies(emails, {Absent}) : POST(body)
    \/ \E body \in PatchBodies : PATCH(body)
    \/ \E params \in DeleteParams : DELETE(params)
    \/ StatsGET
    \/ Deliver

SpecClock == InitServer /\ [][NextClock]_allVars

====
